---- MODULE Spec2Model ----
(***************************************************************************)
(* Chemical Equipment Parameter Visualizer: the upload / summary /         *)
(* retention pipeline of backend/api (views.py, models.py, utils.py).      *)
(*                                                                         *)
(* The database runs in Django's default autocommit mode: every ORM call   *)
(* of a view is one atomic statement, and statements of concurrent         *)
(* requests interleave.  A request is a slot of `req`; its pc names the    *)
(* next ORM call it will make.                                             *)
(*                                                                         *)
(* Measurements are integers; averages are kept in hundredths (the code    *)
(* rounds to 2 decimals).  An optional value (None / NaN) is the empty     *)
(* sequence <<>>, a present value v is <<v>>.                              *)
(***************************************************************************)
EXTENDS Integers, Sequences, FiniteSets, TLC

VARIABLES
    sessions,    \* table api_uploadsession: id -> row
    equipment,   \* table api_equipment: set of rows
    nextId,      \* AUTOINCREMENT counter of api_uploadsession.id
    now,         \* wall clock read by auto_now_add (timezone.now())
    req,         \* request slot -> the request it is serving
    created,     \* history: id -> [user, uploaded_at] of every session INSERTed by create()
    retired,     \* history: ids deleted by cleanup_old_sessions
    aborted,     \* history: ids of sessions whose upload raised after creating them
    csv,         \* parser harness: the CSV handed to parse_csv
    parsed,      \* parser harness: <<>> before the call, <<outcome>> after it
    queryset,    \* summary harness: the equipment rows handed to calculate_summary
    summarized,  \* summary harness: <<>> before the call, <<outcome>> after it
    report_args, \* report harness: [session, equipment_list, summary] handed to the renderer
    rendered,    \* report harness: <<>> before the call, <<document>> after it
    auth_user,        \* table auth_user: the accounts, in order of their ids
    authtoken_token,  \* table authtoken_token: set of [key, user_id]
    nextKey,          \* number of the next key Token.generate_key() draws
    auth_req,         \* request slot -> the authentication request it is serving
    api_client,       \* desktop: the APIClient instance (its token)
    outbox,           \* desktop: <<>>, or the last HTTP request the APIClient sent
    main_window,      \* desktop: the MainWindow (what it displays)
    loaders,          \* desktop: the DataLoaderThreads started so far, oldest first
    login_dialog      \* desktop: the LoginDialog

vars == <<sessions, equipment, nextId, now, req, created, retired, aborted, csv, parsed,
          queryset, summarized, report_args, rendered,
          auth_user, authtoken_token, nextKey, auth_req,
          api_client, outbox, main_window, loaders, login_dialog>>
storeVars == <<sessions, equipment, nextId, now, created, retired>>
histVars == <<aborted>>
parserVars == <<csv, parsed>>
pureVars == <<queryset, summarized, report_args, rendered>>
authVars == <<auth_user, authtoken_token, nextKey, auth_req>>
deskVars == <<api_client, outbox, main_window, loaders, login_dialog>>

----------------------------------------------------------------------------
(* Bounds of the model                                                     *)

MaxUploads == 6      \* sessions created for one user in one behaviour
MaxOtherUploads == 1 \* sessions created for the second user, where two users upload
MaxSummaryRows == 3  \* equipment rows of a generated queryset (summary harness)
MaxReportRows == 52  \* equipment rows handed to the report renderer (report harness)
MaxSlots == 2        \* requests in flight at the same time
MaxRows == 2         \* data rows of a generated CSV (parser harness)

(* Program constants                                                       *)

KeepCount == 5       \* cleanup_old_sessions(keep_count=5)
HistoryLimit == 5    \* HistoryListView: [:5]
ReportCap == 50      \* generate_pdf_report: equipment_list[:50]

None == <<>>
Some(v) == <<v>>

Users == {"alice", "bob"}
Slots == 1..MaxSlots

----------------------------------------------------------------------------
(* Sequences and sets                                                      *)

RECURSIVE SumSeq(_)
SumSeq(s) == IF s = <<>> THEN 0 ELSE Head(s) + SumSeq(Tail(s))

RECURSIVE MinSeq(_)
MinSeq(s) == IF Len(s) = 1 THEN s[1]
             ELSE LET m == MinSeq(Tail(s)) IN IF s[1] <= m THEN s[1] ELSE m

RECURSIVE MaxSeq(_)
MaxSeq(s) == IF Len(s) = 1 THEN s[1]
             ELSE LET m == MaxSeq(Tail(s)) IN IF s[1] >= m THEN s[1] ELSE m

Range(s) == {s[i] : i \in DOMAIN s}

----------------------------------------------------------------------------
(* utils.parse_csv                                                         *)

column_mapping ==
    [c \in {"Equipment Name", "Type", "Flowrate", "Pressure", "Temperature"} |->
        CASE c = "Equipment Name" -> "name"
          [] c = "Type" -> "equipment_type"
          [] c = "Flowrate" -> "flowrate"
          [] c = "Pressure" -> "pressure"
          [] c = "Temperature" -> "temperature"]

required_cols == <<"name", "equipment_type", "flowrate", "pressure", "temperature">>

\* df.rename(columns={old_name: new_name}) for every old_name present
RenameColumns(header) ==
    [i \in DOMAIN header |->
        IF header[i] \in DOMAIN column_mapping THEN column_mapping[header[i]]
        ELSE header[i]]

\* a variant that reports the first missing column only
MissingFirstOnly(columns) ==
    LET missing == SelectSeq(required_cols, LAMBDA c : c \notin Range(columns))
    IN  IF missing = <<>> THEN <<>> ELSE <<missing[1]>>

\* [col for col in required_cols if col not in df.columns]
MissingColumns(columns) ==
    SelectSeq(required_cols, LAMBDA c : c \notin Range(columns))

\* The text cells pandas reads as numbers, with their values; any other
\* text, and the empty cell, is not a number.
NumericLiterals == {"0", "5", "10", "15", "20", "25", "40"}
LiteralValue(cell) ==
    CASE cell = "0" -> 0 [] cell = "5" -> 5 [] cell = "10" -> 10 [] cell = "15" -> 15
      [] cell = "20" -> 20 [] cell = "25" -> 25 [] cell = "40" -> 40

\* a variant that reads every non-empty text as a number
ToNumericLenient(cell) ==
    IF cell = "" THEN None
    ELSE IF cell \in NumericLiterals THEN Some(LiteralValue(cell)) ELSE Some(0)

\* pd.to_numeric(..., errors='coerce') on one cell: NaN is None
ToNumeric(cell) ==
    IF cell \in NumericLiterals THEN Some(LiteralValue(cell)) ELSE None

ColumnsNamed(columns, c) == {i \in DOMAIN columns : columns[i] = c}
Col(columns, c) == CHOOSE i \in DOMAIN columns : columns[i] = c

\* one row of the frame after the three to_numeric conversions
CoerceRow(columns, row) ==
    [name           |-> row[Col(columns, "name")],
     equipment_type |-> row[Col(columns, "equipment_type")],
     flowrate       |-> ToNumeric(row[Col(columns, "flowrate")]),
     pressure       |-> ToNumeric(row[Col(columns, "pressure")]),
     temperature    |-> ToNumeric(row[Col(columns, "temperature")])]

HasNaN(r) == r.flowrate = None \/ r.pressure = None \/ r.temperature = None

\* df.dropna(subset=['flowrate', 'pressure', 'temperature'])
RECURSIVE DropNa(_)
DropNa(rows) ==
    IF rows = <<>> THEN <<>>
    ELSE IF HasNaN(Head(rows)) THEN DropNa(Tail(rows))
         ELSE <<[name           |-> Head(rows).name,
                 equipment_type |-> Head(rows).equipment_type,
                 flowrate       |-> Head(rows).flowrate[1],
                 pressure       |-> Head(rows).pressure[1],
                 temperature    |-> Head(rows).temperature[1]]>>
              \o DropNa(Tail(rows))

\* The outcome of parse_csv(file): exc = "" and the frame df, or the
\* exception raised.  df['flowrate'] of a frame that holds two columns of
\* that name is a frame, which to_numeric rejects with a TypeError.
parse_csv(file) ==
    LET columns == RenameColumns(file.header)
        missing == MissingColumns(columns)
    IN  IF missing # <<>>
        THEN [exc |-> "ValueError", missing |-> missing, df |-> <<>>]
        ELSE IF \E c \in {"flowrate", "pressure", "temperature"} :
                    Cardinality(ColumnsNamed(columns, c)) > 1
        THEN [exc |-> "TypeError", missing |-> <<>>, df |-> <<>>]
        ELSE [exc |-> "", missing |-> <<>>,
              df |-> DropNa([i \in DOMAIN file.rows |-> CoerceRow(columns, file.rows[i])])]

----------------------------------------------------------------------------
(* utils.calculate_summary                                                 *)

\* a variant that cuts the digits after the second
Round2Down(total, n) == (100 * total) \div n

\* round(total / n, 2), in hundredths: the nearest hundredth, a tie going to
\* the even one
Round2(total, n) ==
    LET q == (100 * total) \div n
        r == (100 * total) % n
    IN  IF 2 * r < n THEN q
        ELSE IF 2 * r > n THEN q + 1
        ELSE IF q % 2 = 0 THEN q ELSE q + 1

\* type_counts[eq_type] = type_counts.get(eq_type, 0) + 1
TypeCounts(types) ==
    [t \in Range(types) |-> Cardinality({i \in DOMAIN types : types[i] = t})]

\* lines 57-69: the summary of an empty queryset
ZeroSummary ==
    [total_count |-> 0,
     avg_flowrate |-> 0, avg_pressure |-> 0, avg_temperature |-> 0,
     min_flowrate |-> 0, max_flowrate |-> 0,
     min_pressure |-> 0, max_pressure |-> 0,
     min_temperature |-> 0, max_temperature |-> 0,
     type_distribution |-> TypeCounts(<<>>)]

\* lines 82-94, from the four lists the queries returned.  An empty list
\* makes sum(...) / len(...) raise ZeroDivisionError.
SummaryOf(flowrates, pressures, temperatures, types) ==
    IF Len(flowrates) = 0 \/ Len(pressures) = 0 \/ Len(temperatures) = 0
    THEN [exc |-> "ZeroDivisionError", value |-> ZeroSummary]
    ELSE [exc |-> "",
          value |->
            [total_count |-> Len(flowrates),
             avg_flowrate |-> Round2(SumSeq(flowrates), Len(flowrates)),
             avg_pressure |-> Round2(SumSeq(pressures), Len(pressures)),
             avg_temperature |-> Round2(SumSeq(temperatures), Len(temperatures)),
             min_flowrate |-> 100 * MinSeq(flowrates),
             max_flowrate |-> 100 * MaxSeq(flowrates),
             min_pressure |-> 100 * MinSeq(pressures),
             max_pressure |-> 100 * MaxSeq(pressures),
             min_temperature |-> 100 * MinSeq(temperatures),
             max_temperature |-> 100 * MaxSeq(temperatures),
             type_distribution |-> TypeCounts(types)]]

----------------------------------------------------------------------------
(* models.UploadSession / models.Equipment and the ORM calls on them       *)

\* json.dumps / json.loads of a summary dict
JsonDumps(value) == [text |-> value]
JsonLoads(text) == text.text

EmptyDict == [k \in {} |-> 0]

\* UploadSession.summary (property)
SummaryProperty(row) ==
    IF row.summary_json # None THEN JsonLoads(row.summary_json[1]) ELSE EmptyDict

\* a variant without the filter
AllSessions(tbl, user) == DOMAIN tbl

\* UploadSession.objects.filter(user=user)
UserSessions(tbl, user) == {i \in DOMAIN tbl : tbl[i].user = user}

\* .order_by('-uploaded_at') of a set of ids, as a list
RECURSIVE OrderByUploadedDesc(_, _)
OrderByUploadedDesc(tbl, ids) ==
    IF ids = {} THEN <<>>
    ELSE LET top == CHOOSE i \in ids :
                        \A j \in ids : tbl[j].uploaded_at <= tbl[i].uploaded_at
         IN  <<top>> \o OrderByUploadedDesc(tbl, ids \ {top})

\* a variant that orders by uploaded_at ascending: the newest are deleted
IdsToDeleteNewest(tbl, user, keep_count) ==
    LET ordered == OrderByUploadedDesc(tbl, UserSessions(tbl, user))
    IN  {ordered[k] : k \in 1..(Len(ordered) - keep_count)}

\* sessions[keep_count:].values_list('id', flat=True)
IdsToDelete(tbl, user, keep_count) ==
    LET ordered == OrderByUploadedDesc(tbl, UserSessions(tbl, user))
    IN  {ordered[k] : k \in (keep_count + 1)..Len(ordered)}

\* The equipment names the uploads of the model hold, in the order the
\* database collates them
Collation == <<"Pump1", "Pump2", "Valve1">>
NameRank(name) == CHOOSE k \in DOMAIN Collation : Collation[k] = name

\* Equipment.Meta.ordering = ['name']; rows of one name come in the order of
\* their primary keys
Precedes(e, o) ==
    \/ NameRank(e.name) < NameRank(o.name)
    \/ NameRank(e.name) = NameRank(o.name) /\ e.session < o.session
    \/ NameRank(e.name) = NameRank(o.name) /\ e.session = o.session /\ e.idx <= o.idx

RECURSIVE OrderByName(_)
OrderByName(rows) ==
    IF rows = {} THEN <<>>
    ELSE LET first == CHOOSE e \in rows : \A o \in rows : Precedes(e, o)
         IN  <<first>> \o OrderByName(rows \ {first})

\* session.equipment.all()
SessionEquipment(eq, sid) == OrderByName({e \in eq : e.session = sid})

\* a variant without the cascade (on_delete=DO_NOTHING)
NoCascade(eq, ids) == eq

\* a variant that deletes the rows of every session
DeleteAllRows(eq, ids) == {}

\* Equipment.session, on_delete=CASCADE: the rows that survive the delete of
\* the sessions `ids`
CascadeDelete(eq, ids) == {e \in eq : e.session \notin ids}

\* The database's foreign-key constraint on api_equipment.session_id: an
\* INSERT of rows for a session that is gone is refused (IntegrityError)
ForeignKeyHolds(tbl, sid) == sid \in DOMAIN tbl

\* the Equipment objects of lines 112-121
EquipmentObjects(sid, df) ==
    {[session |-> sid, idx |-> i,
      name |-> df[i].name, equipment_type |-> df[i].equipment_type,
      flowrate |-> df[i].flowrate, pressure |-> df[i].pressure,
      temperature |-> df[i].temperature] : i \in DOMAIN df}

\* file.name.endswith('.csv'); a name is its sequence of characters
DotCsv == <<".", "c", "s", "v">>
\* a variant that ignores the case of the name
LowerCase(ch) ==
    CASE ch = "C" -> "c" [] ch = "S" -> "s" [] ch = "V" -> "v" [] OTHER -> ch
EndsWithAnyCase(name, suffix) ==
    /\ Len(name) >= Len(suffix)
    /\ [i \in 1..Len(suffix) |-> LowerCase(name[Len(name) - Len(suffix) + i])] = suffix

EndsWith(name, suffix) ==
    /\ Len(name) >= Len(suffix)
    /\ SubSeq(name, Len(name) - Len(suffix) + 1, Len(name)) = suffix

----------------------------------------------------------------------------
(* Requests                                                                *)

IdleReq ==
    [pc |-> "idle", kind |-> "", user |-> "", sid |-> 0, inst |-> None,
     df |-> <<>>, equipment_list |-> <<>>,
     fl |-> <<>>, pr |-> <<>>, te |-> <<>>, summary |-> None,
     ids |-> {}, parser_called |-> FALSE, resp |-> None]

Response(status, body) == [status |-> status, body |-> body]

\* the request has returned `response`; its locals are gone
Finished(q, response) ==
    [IdleReq EXCEPT !.pc = "done", !.kind = q.kind, !.user = q.user, !.sid = q.sid,
                    !.parser_called = q.parser_called, !.resp = Some(response)]

Free(r) == req[r].pc \in {"idle", "done"}
InFlight(r) == ~Free(r)

\* a worker takes the request: the free slot of least index
Accepts(r) == Free(r) /\ \A q \in Slots : q < r => InFlight(q)

\* views.py 144-148: except Exception -> 500, the exception's text in the body
ServerError(exc) ==
    Response(500, [error |-> "Error processing file", detail |-> <<exc>>])

\* views.py 132-137
Created201(q, summary) ==
    Response(201, [message |-> "File uploaded successfully", session_id |-> q.sid,
                   record_count |-> q.inst[1].record_count, summary |-> summary])

(* UploadCSVView.post, lines 86-109: the checks on the request, parse_csv,  *)
(* and UploadSession.objects.create (the first statement on the database). *)
(* `upload` is None (no 'file' part) or Some(file).                        *)
PostUpload(r, user, upload) ==
    /\ Accepts(r)
    /\ LET q == [IdleReq EXCEPT !.kind = "upload", !.user = user]
       IN
       IF upload = None
       THEN /\ req' = [req EXCEPT ![r] =
                          Finished(q, Response(400, [error |-> "No file provided", detail |-> <<>>]))]
            /\ UNCHANGED storeVars
       ELSE IF ~EndsWith(upload[1].name, DotCsv)
       THEN /\ req' = [req EXCEPT ![r] =
                          Finished(q, Response(400, [error |-> "File must be a CSV", detail |-> <<>>]))]
            /\ UNCHANGED storeVars
       ELSE LET out == parse_csv(upload[1])
                qp  == [q EXCEPT !.parser_called = TRUE]
            IN
            IF out.exc = "ValueError"
            THEN /\ req' = [req EXCEPT ![r] =
                               Finished(qp, Response(400, [error |-> "Missing required columns",
                                                           detail |-> out.missing]))]
                 /\ UNCHANGED storeVars
            ELSE IF out.exc # ""
            THEN /\ req' = [req EXCEPT ![r] = Finished(qp, ServerError(out.exc))]
                 /\ UNCHANGED storeVars
            ELSE /\ Cardinality({i \in DOMAIN created : created[i].user = user}) < MaxUploads
                 /\ LET row == [user |-> user, filename |-> upload[1].name,
                                uploaded_at |-> now + 1, record_count |-> Len(out.df),
                                summary_json |-> None]
                    IN  /\ sessions' = (nextId :> row) @@ sessions
                        /\ created' = (nextId :> [user |-> user, uploaded_at |-> now + 1]) @@ created
                        /\ req' = [req EXCEPT ![r] =
                                      [qp EXCEPT !.pc = "bulk_create", !.sid = nextId,
                                                 !.inst = Some(row), !.df = out.df]]
                 /\ nextId' = nextId + 1
                 /\ now' = now + 1
                 /\ UNCHANGED <<equipment, retired>>
    /\ UNCHANGED <<aborted, parserVars, pureVars, authVars, deskVars>>

(* line 122: Equipment.objects.bulk_create(equipment_objects).  An empty    *)
(* list issues no statement.  `dbok` is the database's answer to the       *)
(* INSERT: it may refuse it (DatabaseError).                               *)
BulkCreate(r, dbok) ==
    /\ req[r].pc = "bulk_create"
    /\ LET q == req[r]
       IN
       IF q.df = <<>>
       THEN /\ dbok
            /\ req' = [req EXCEPT ![r].pc = "exists", ![r].df = <<>>]
            /\ UNCHANGED <<equipment, aborted>>
       ELSE IF ~ForeignKeyHolds(sessions, q.sid)
       THEN /\ dbok
            /\ req' = [req EXCEPT ![r] = Finished(q, ServerError("IntegrityError"))]
            /\ aborted' = aborted \cup {q.sid}
            /\ UNCHANGED equipment
       ELSE IF ~dbok
       THEN /\ req' = [req EXCEPT ![r] = Finished(q, ServerError("DatabaseError"))]
            /\ aborted' = aborted \cup {q.sid}
            /\ UNCHANGED equipment
       ELSE /\ equipment' = equipment \cup EquipmentObjects(q.sid, q.df)
            /\ req' = [req EXCEPT ![r].pc = "exists", ![r].df = <<>>]
            /\ UNCHANGED aborted
    /\ UNCHANGED <<sessions, nextId, now, created, retired, parserVars, pureVars, authVars, deskVars>>

Column(rows, f) == [i \in DOMAIN rows |-> rows[i][f]]

\* views.py 213-218: {'session_id': ..., 'filename': ..., 'uploaded_at': ...,
\* **summary}
SummaryBody(session_id, filename, uploaded_at, summary) ==
    [session_id |-> session_id, filename |-> filename, uploaded_at |-> uploaded_at]
        @@ summary

\* str(value)
Str(value) == [str |-> value]

\* a variant that lists the last rows of the list
LastRows(list, n) ==
    SubSeq(list, IF Len(list) > n THEN Len(list) - n + 1 ELSE 1, Len(list))

\* equipment_list[:n]
FirstRows(list, n) == SubSeq(list, 1, IF Len(list) < n THEN Len(list) ELSE n)

\* utils.generate_pdf_report: the content of the document it lays out
generate_pdf_report(session, equipment_list, summary) ==
    [file |-> session.filename,
     uploaded |-> session.uploaded_at,
     total_records |-> summary.total_count,
     summary_data |->
        [average |-> <<Str(summary.avg_flowrate), Str(summary.avg_pressure),
                       Str(summary.avg_temperature)>>,
         minimum |-> <<Str(summary.min_flowrate), Str(summary.min_pressure),
                       Str(summary.min_temperature)>>,
         maximum |-> <<Str(summary.max_flowrate), Str(summary.max_pressure),
                       Str(summary.max_temperature)>>],
     type_data |-> [t \in DOMAIN summary.type_distribution |->
                        Str(summary.type_distribution[t])],
     eq_data |-> LET shown == FirstRows(equipment_list, ReportCap)
                 IN  [i \in DOMAIN shown |->
                         <<shown[i].name, shown[i].equipment_type, Str(shown[i].flowrate),
                           Str(shown[i].pressure), Str(shown[i].temperature)>>]]

\* views.py 265-268: the PDF and its Content-Disposition
PdfResponse(q, summary) ==
    Response(200, [content_type |-> "application/pdf",
                   attachment |-> [equipment_report |-> q.sid],
                   pdf |-> generate_pdf_report(q.inst[1], q.equipment_list, summary)])

\* where a request goes with the summary it computed
AfterSummary(q, summary) ==
    IF q.kind = "upload"
    THEN [q EXCEPT !.pc = "save", !.fl = <<>>, !.pr = <<>>, !.te = <<>>,
                   !.summary = Some(summary)]
    ELSE IF q.kind = "report"
    THEN Finished(q, PdfResponse(q, summary))
    ELSE Finished(q, Response(200, SummaryBody(q.sid, q.inst[1].filename,
                                               q.inst[1].uploaded_at, summary)))

\* an exception out of calculate_summary: caught by the upload's handler,
\* not caught by SummaryView.get (the framework answers 500)
SummaryRaised(q, exc) ==
    IF q.kind = "upload" THEN Finished(q, ServerError(exc))
    ELSE Finished(q, Response(500, [error |-> "Server Error (500)", detail |-> <<>>]))

(* calculate_summary, line 56: equipment_queryset.exists()                 *)
QueryExists(r) ==
    /\ req[r].pc = "exists"
    /\ req' = [req EXCEPT ![r] =
                  IF SessionEquipment(equipment, req[r].sid) = <<>>
                  THEN AfterSummary(req[r], ZeroSummary)
                  ELSE [req[r] EXCEPT !.pc = "flowrates"]]
    /\ UNCHANGED <<storeVars, histVars, parserVars, pureVars, authVars, deskVars>>

(* line 72: list(values_list('flowrate'))                                  *)
QueryFlowrates(r) ==
    /\ req[r].pc = "flowrates"
    /\ req' = [req EXCEPT ![r].pc = "pressures",
                          ![r].fl = Column(SessionEquipment(equipment, req[r].sid), "flowrate")]
    /\ UNCHANGED <<storeVars, histVars, parserVars, pureVars, authVars, deskVars>>

(* line 73: list(values_list('pressure'))                                  *)
QueryPressures(r) ==
    /\ req[r].pc = "pressures"
    /\ req' = [req EXCEPT ![r].pc = "temperatures",
                          ![r].pr = Column(SessionEquipment(equipment, req[r].sid), "pressure")]
    /\ UNCHANGED <<storeVars, histVars, parserVars, pureVars, authVars, deskVars>>

(* line 74: list(values_list('temperature'))                               *)
QueryTemperatures(r) ==
    /\ req[r].pc = "temperatures"
    /\ req' = [req EXCEPT ![r].pc = "types",
                          ![r].te = Column(SessionEquipment(equipment, req[r].sid), "temperature")]
    /\ UNCHANGED <<storeVars, histVars, parserVars, pureVars, authVars, deskVars>>

(* lines 77-94: values('equipment_type'), the counts, and the result       *)
QueryTypes(r) ==
    /\ req[r].pc = "types"
    /\ LET q == req[r]
           types == Column(SessionEquipment(equipment, q.sid), "equipment_type")
           out == SummaryOf(q.fl, q.pr, q.te, types)
       IN  /\ req' = [req EXCEPT ![r] =
                          IF out.exc # "" THEN SummaryRaised(q, out.exc)
                          ELSE AfterSummary(q, out.value)]
           /\ aborted' = IF out.exc # "" /\ q.kind = "upload"
                         THEN aborted \cup {q.sid} ELSE aborted
    /\ UNCHANGED <<storeVars, parserVars, pureVars, authVars, deskVars>>

\* Model.save() of an instance that has a primary key: UPDATE the row; when
\* no row has that id, INSERT one, and auto_now_add stamps it with the
\* time `t` of the INSERT
SaveRow(tbl, sid, row, t) ==
    IF sid \in DOMAIN tbl THEN [tbl EXCEPT ![sid] = row]
    ELSE (sid :> [row EXCEPT !.uploaded_at = t]) @@ tbl

(* lines 126-127: session.summary = summary; session.save()                *)
SaveSummary(r) ==
    /\ req[r].pc = "save"
    /\ LET q == req[r]
           row == [q.inst[1] EXCEPT !.summary_json = Some(JsonDumps(q.summary[1]))]
       IN  /\ sessions' = SaveRow(sessions, q.sid, row, now + 1)
           /\ now' = IF q.sid \in DOMAIN sessions THEN now ELSE now + 1
           /\ req' = [req EXCEPT ![r].pc = "count", ![r].inst = Some(sessions'[q.sid])]
    /\ UNCHANGED <<equipment, nextId, created, retired, aborted, parserVars, pureVars, authVars, deskVars>>

(* cleanup_old_sessions, line 39: sessions.count() > keep_count; when it is *)
(* not, the upload answers 201                                             *)
CleanupCount(r) ==
    /\ req[r].pc = "count"
    /\ LET q == req[r]
       IN  req' = [req EXCEPT ![r] =
                      IF Cardinality(UserSessions(sessions, q.user)) > KeepCount
                      THEN [q EXCEPT !.pc = "ids"]
                      ELSE Finished(q, Created201(q, q.summary[1]))]
    /\ UNCHANGED <<storeVars, histVars, parserVars, pureVars, authVars, deskVars>>

(* line 41-42: list(ids_to_delete)                                         *)
CleanupIds(r) ==
    /\ req[r].pc = "ids"
    /\ req' = [req EXCEPT ![r].pc = "delete",
                          ![r].ids = IdsToDelete(sessions, req[r].user, KeepCount)]
    /\ UNCHANGED <<storeVars, histVars, parserVars, pureVars, authVars, deskVars>>

(* line 42: cls.objects.filter(id__in=...).delete(), with the cascade to    *)
(* the equipment rows, in one transaction; then the upload answers 201     *)
CleanupDelete(r) ==
    /\ req[r].pc = "delete"
    /\ LET q == req[r]
           gone == q.ids \cap DOMAIN sessions
       IN  /\ sessions' = [i \in DOMAIN sessions \ gone |-> sessions[i]]
           /\ equipment' = CascadeDelete(equipment, gone)
           /\ retired' = retired \cup gone
           /\ req' = [req EXCEPT ![r] = Finished(q, Created201(q, q.summary[1]))]
    /\ UNCHANGED <<nextId, now, created, aborted, parserVars, pureVars, authVars, deskVars>>

\* views.py 197-208: the answer when the user has no session
EmptySummaryBody ==
    [session_id |-> None, filename |-> None, uploaded_at |-> None,
     total_count |-> 0, avg_flowrate |-> 0, avg_pressure |-> 0, avg_temperature |-> 0,
     min_flowrate |-> 0, max_flowrate |-> 0, type_distribution |-> EmptyDict]

\* a variant that takes the last of the ordering
EarliestSession(tbl, user) ==
    LET ordered == OrderByUploadedDesc(tbl, UserSessions(tbl, user))
    IN  IF ordered = <<>> THEN None ELSE Some(ordered[Len(ordered)])

\* UploadSession.objects.filter(user=user).first(), Meta.ordering = ['-uploaded_at']
LatestSession(tbl, user) ==
    LET ordered == OrderByUploadedDesc(tbl, UserSessions(tbl, user))
    IN  IF ordered = <<>> THEN None ELSE Some(ordered[1])

\* a variant that looks the session up by its id only
GetSessionOfAnyUser(tbl, user, session_id) ==
    IF session_id \in DOMAIN tbl THEN Some(session_id) ELSE None

\* UploadSession.objects.get(id=session_id, user=user): the id, or None for
\* DoesNotExist
GetSession(tbl, user, session_id) ==
    IF session_id \in UserSessions(tbl, user) THEN Some(session_id) ELSE None

(* SummaryView.get, lines 179-208: the session looked up by id and user, or *)
(* the user's latest.  `session_id` is None or Some(id).                   *)
GetSummary(r, user, session_id) ==
    /\ Accepts(r)
    /\ LET q == [IdleReq EXCEPT !.kind = "summary", !.user = user]
           found == IF session_id # None
                    THEN GetSession(sessions, user, session_id[1])
                    ELSE LatestSession(sessions, user)
       IN  req' = [req EXCEPT ![r] =
                      IF found # None
                      THEN [q EXCEPT !.pc = "exists", !.sid = found[1],
                                     !.inst = Some(sessions[found[1]])]
                      ELSE IF session_id # None
                      THEN Finished(q, Response(404, [error |-> "Session not found"]))
                      ELSE Finished(q, Response(200, EmptySummaryBody))]
    /\ UNCHANGED <<storeVars, histVars, parserVars, pureVars, authVars, deskVars>>

\* a variant without the guard of line 56
SummaryUnguarded(rows) ==
    SummaryOf(Column(rows, "flowrate"), Column(rows, "pressure"),
              Column(rows, "temperature"), Column(rows, "equipment_type"))

\* calculate_summary(equipment_queryset) on a queryset no other request
\* changes during the call: the rows `rows`
calculate_summary(rows) ==
    IF rows = <<>> THEN [exc |-> "", value |-> ZeroSummary]
    ELSE SummaryOf(Column(rows, "flowrate"), Column(rows, "pressure"),
                   Column(rows, "temperature"), Column(rows, "equipment_type"))

\* EquipmentSerializer
EquipmentData(rows) ==
    [i \in DOMAIN rows |->
        [id |-> [session |-> rows[i].session, idx |-> rows[i].idx],
         name |-> rows[i].name, equipment_type |-> rows[i].equipment_type,
         flowrate |-> rows[i].flowrate, pressure |-> rows[i].pressure,
         temperature |-> rows[i].temperature]]

\* Equipment.objects.filter(session_id=session_id, session__user=user)
EquipmentOfUser(tbl, eq, user, session_id) ==
    OrderByName({e \in eq : /\ e.session = session_id
                            /\ e.session \in DOMAIN tbl
                            /\ tbl[e.session].user = user})

(* EquipmentListView.get_queryset, lines 156-172, and the listing of it:    *)
(* with a session id, one query on the rows joined with their session;     *)
(* without one, the query for the user's latest session comes first.       *)
GetEquipment(r, user, session_id) ==
    /\ Accepts(r)
    /\ LET q == [IdleReq EXCEPT !.kind = "equipment", !.user = user]
           latest == LatestSession(sessions, user)
       IN  req' = [req EXCEPT ![r] =
                      IF session_id # None
                      THEN Finished(q, Response(200,
                               EquipmentData(EquipmentOfUser(sessions, equipment, user,
                                                             session_id[1]))))
                      ELSE IF latest # None
                      THEN [q EXCEPT !.pc = "list", !.sid = latest[1],
                                     !.inst = Some(sessions[latest[1]])]
                      ELSE Finished(q, Response(200, <<>>))]
    /\ UNCHANGED <<storeVars, histVars, parserVars, pureVars, authVars, deskVars>>

(* line 170: Equipment.objects.filter(session=latest_session), evaluated    *)
(* when the view lists it                                                  *)
ListEquipment(r) ==
    /\ req[r].pc = "list"
    /\ req' = [req EXCEPT ![r] =
                  Finished(req[r], Response(200,
                      EquipmentData(SessionEquipment(equipment, req[r].sid))))]
    /\ UNCHANGED <<storeVars, histVars, parserVars, pureVars, authVars, deskVars>>

\* a variant without the filter on the user
HistoryOfEveryone(tbl, user, limit) ==
    FirstRows(OrderByUploadedDesc(tbl, DOMAIN tbl), limit)

\* a variant without the slice
HistoryUnsliced(tbl, user, limit) ==
    OrderByUploadedDesc(tbl, UserSessions(tbl, user))

\* UploadSession.objects.filter(user=user).order_by('-uploaded_at')[:limit]
HistoryQueryset(tbl, user, limit) ==
    FirstRows(OrderByUploadedDesc(tbl, UserSessions(tbl, user)), limit)

\* UploadSessionSerializer
SessionData(tbl, ids) ==
    [k \in DOMAIN ids |->
        [id |-> ids[k], filename |-> tbl[ids[k]].filename,
         uploaded_at |-> tbl[ids[k]].uploaded_at,
         equipment_count |-> tbl[ids[k]].record_count,
         summary |-> SummaryProperty(tbl[ids[k]])]]

(* HistoryListView, lines 225-228                                          *)
GetHistory(r, user) ==
    /\ Accepts(r)
    /\ LET q == [IdleReq EXCEPT !.kind = "history", !.user = user]
       IN  req' = [req EXCEPT ![r] =
                      Finished(q, Response(200,
                          SessionData(sessions, HistoryQueryset(sessions, user, HistoryLimit))))]
    /\ UNCHANGED <<storeVars, histVars, parserVars, pureVars, authVars, deskVars>>

(* PDFReportView.get, lines 235-255: the session looked up by id and user,  *)
(* or the user's latest                                                    *)
GetReport(r, user, session_id) ==
    /\ Accepts(r)
    /\ LET q == [IdleReq EXCEPT !.kind = "report", !.user = user]
           found == IF session_id # None
                    THEN GetSession(sessions, user, session_id[1])
                    ELSE LatestSession(sessions, user)
       IN  req' = [req EXCEPT ![r] =
                      IF found # None
                      THEN [q EXCEPT !.pc = "rows", !.sid = found[1],
                                     !.inst = Some(sessions[found[1]])]
                      ELSE IF session_id # None
                      THEN Finished(q, Response(404, [error |-> "Session not found"]))
                      ELSE Finished(q, Response(404, [error |-> "No upload sessions found"]))]
    /\ UNCHANGED <<storeVars, histVars, parserVars, pureVars, authVars, deskVars>>

(* line 258: equipment_list = list(session.equipment.all()); the call of    *)
(* calculate_summary follows                                               *)
ReportRows(r) ==
    /\ req[r].pc = "rows"
    /\ req' = [req EXCEPT ![r].pc = "exists",
                          ![r].equipment_list = SessionEquipment(equipment, req[r].sid)]
    /\ UNCHANGED <<storeVars, histVars, parserVars, pureVars, authVars, deskVars>>

----------------------------------------------------------------------------
(* Inputs                                                                  *)

CsvName == <<"a", ".", "c", "s", "v">>
TxtName == <<"a", ".", "t", "x", "t">>
UpperName == <<"a", ".", "C", "S", "V">>

AliasHeader == <<"Equipment Name", "Type", "Flowrate", "Pressure", "Temperature">>

PumpsCsv ==
    [name |-> CsvName, header |-> AliasHeader,
     rows |-> << <<"Pump1", "Pump", "10", "5", "20">>,
                 <<"Pump2", "Pump", "20", "15", "40">> >>]
MixedCsv ==
    [name |-> CsvName, header |-> AliasHeader,
     rows |-> << <<"Valve1", "Valve", "25", "10", "40">>,
                 <<"Bad1", "Pump", "abc", "5", "">> >>]
HeaderOnlyCsv == [name |-> CsvName, header |-> AliasHeader, rows |-> <<>>]
PumpsTxt == [PumpsCsv EXCEPT !.name = TxtName]
PumpsUpper == [PumpsCsv EXCEPT !.name = UpperName]
NoPressureCsv ==
    [name |-> CsvName, header |-> <<"Equipment Name", "Type", "Flowrate", "Temp">>,
     rows |-> << <<"Pump1", "Pump", "10", "20">> >>]
NoPressureTxt == [NoPressureCsv EXCEPT !.name = TxtName]
TwoFlowratesCsv ==
    [name |-> CsvName,
     header |-> <<"Equipment Name", "Type", "Flowrate", "flowrate", "Pressure", "Temperature">>,
     rows |-> << <<"Pump1", "Pump", "10", "10", "5", "20">> >>]

\* what a client may send as the 'file' part
SeqUploads ==
    {None} \cup {Some(f) : f \in {MixedCsv, HeaderOnlyCsv, PumpsTxt, PumpsUpper,
                                  NoPressureCsv, NoPressureTxt, TwoFlowratesCsv}}
ConcUploads == {Some(PumpsCsv), Some(HeaderOnlyCsv)}

----------------------------------------------------------------------------
(* The store under concurrent requests                                     *)

NoCsv == [name |-> <<>>, header |-> <<>>, rows |-> <<>>]
NoReport == [session |-> None, equipment_list |-> <<>>, summary |-> None]

\* an authentication slot that serves no request
IdleAuth == [pc |-> "idle", kind |-> "none", data |-> <<>>, errors |-> {},
             user |-> None, resp |-> None]

\* the desktop application before main() has shown anything
NoWindow == [open |-> FALSE, crashed |-> FALSE, equipment |-> <<>>,
             summary |-> None, current_session_id |-> None,
             history |-> <<>>, events |-> <<>>]

\* the LoginDialog as main() shows it
NoDialog == [accepted |-> FALSE, action |-> "none", message |-> None]

\* the tables empty, no request in flight
EmptyStore ==
    /\ auth_user = <<>>
    /\ authtoken_token = {}
    /\ nextKey = 1
    /\ auth_req = [r \in Slots |-> IdleAuth]
    /\ api_client = [token |-> None]
    /\ outbox = <<>>
    /\ main_window = NoWindow
    /\ loaders = <<>>
    /\ login_dialog = NoDialog
    /\ sessions = [i \in {} |-> 0]
    /\ equipment = {}
    /\ nextId = 1
    /\ now = 0
    /\ req = [r \in Slots |-> IdleReq]
    /\ created = [i \in {} |-> 0]
    /\ retired = {}
    /\ aborted = {}

Init ==
    /\ EmptyStore
    /\ csv = NoCsv
    /\ parsed = None
    /\ queryset = <<>>
    /\ summarized = None
    /\ report_args = NoReport
    /\ rendered = None

\* one step of the request in slot r
Step(r, users, uploads, answers) ==
    \/ \E u \in users, f \in uploads : PostUpload(r, u, f)
    \/ \E dbok \in answers : BulkCreate(r, dbok)
    \/ QueryExists(r)
    \/ QueryFlowrates(r)
    \/ QueryPressures(r)
    \/ QueryTemperatures(r)
    \/ QueryTypes(r)
    \/ SaveSummary(r)
    \/ CleanupCount(r)
    \/ CleanupIds(r)
    \/ CleanupDelete(r)
    \/ \E u \in users, p \in {None} \cup {Some(i) : i \in 1..nextId} : GetSummary(r, u, p)

Next == \E r \in Slots : Step(r, {"alice"}, ConcUploads, {TRUE})

Spec == Init /\ [][Next]_vars

(* The store when requests are served one at a time                        *)
NextSeq == Step(1, {"alice"}, SeqUploads, BOOLEAN)

SpecSeq == Init /\ [][NextSeq]_vars

----------------------------------------------------------------------------
(* parse_csv on generated CSVs                                             *)

CanonHeader == <<"name", "equipment_type", "flowrate", "pressure", "temperature">>
ShuffledHeader == <<"Temperature", "pressure", "Notes", "Type", "name", "Flowrate">>
TempHeader == <<"Equipment Name", "Type", "Flowrate", "Pressure", "Temp">>
HeaderColumns ==
    <<"Equipment Name", "Type", "Flowrate", "flowrate", "Pressure", "Temperature">>

\* the sub-sequence of s at the positions `keep`
RECURSIVE Pick(_, _)
Pick(s, keep) ==
    IF keep = {} THEN <<>>
    ELSE LET k == CHOOSE i \in keep : \A j \in keep : i <= j
         IN  <<s[k]>> \o Pick(s, keep \ {k})

Headers ==
    {Pick(HeaderColumns, keep) : keep \in SUBSET (DOMAIN HeaderColumns)}
        \cup {CanonHeader, ShuffledHeader, TempHeader}

Cells == {"10", "abc", ""}
RowNames == <<"E1", "E2", "E3", "E4">>

\* the field a column is meant for, by its name
FieldOf(col) ==
    IF col \in DOMAIN column_mapping THEN column_mapping[col]
    ELSE IF col \in Range(required_cols) THEN col
    ELSE "other"

\* the k-th data row under `header`, its three measurement cells given
MakeRow(header, k, m) ==
    [i \in DOMAIN header |->
        CASE FieldOf(header[i]) = "name" -> RowNames[k]
          [] FieldOf(header[i]) = "equipment_type" -> "Pump"
          [] FieldOf(header[i]) = "flowrate" -> m[1]
          [] FieldOf(header[i]) = "pressure" -> m[2]
          [] FieldOf(header[i]) = "temperature" -> m[3]
          [] OTHER -> "n/a"]

Measurements == Cells \X Cells \X Cells

CsvInputs ==
    {[name |-> CsvName, header |-> h,
      rows |-> [k \in 1..n |-> MakeRow(h, k, ms[k])]] :
        h \in Headers, n \in 0..MaxRows, ms \in [1..MaxRows -> Measurements]}

InitParse ==
    /\ EmptyStore
    /\ csv \in CsvInputs
    /\ parsed = None
    /\ queryset = <<>>
    /\ summarized = None
    /\ report_args = NoReport
    /\ rendered = None

ParseCsv ==
    /\ parsed = None
    /\ parsed' = Some(parse_csv(csv))
    /\ UNCHANGED <<storeVars, histVars, req, csv, pureVars, authVars, deskVars>>

SpecParse == InitParse /\ [][ParseCsv]_vars

----------------------------------------------------------------------------
(* calculate_summary on generated querysets                                *)

EquipmentTypes == {"Pump", "Valve"}
Flowrates == {-5, 10, 20}
Pressures == {5, 15}
Temperatures == {20, 40}

Readings == EquipmentTypes \X Flowrates \X Pressures \X Temperatures

\* the rows of one session, their types and measurements given
RowsOfReadings(v) ==
    [i \in DOMAIN v |->
        [session |-> 1, idx |-> i, name |-> RowNames[i], equipment_type |-> v[i][1],
         flowrate |-> v[i][2], pressure |-> v[i][3], temperature |-> v[i][4]]]

Querysets ==
    UNION {{RowsOfReadings(v) : v \in [1..n -> Readings]} : n \in 0..MaxSummaryRows}

InitSummary ==
    /\ EmptyStore
    /\ csv = NoCsv
    /\ parsed = None
    /\ queryset \in Querysets
    /\ summarized = None
    /\ report_args = NoReport
    /\ rendered = None

CalculateSummary ==
    /\ summarized = None
    /\ summarized' = Some(calculate_summary(queryset))
    /\ UNCHANGED <<storeVars, histVars, req, parserVars, queryset, report_args, rendered,
                   authVars, deskVars>>

SpecSummary == InitSummary /\ [][CalculateSummary]_vars

----------------------------------------------------------------------------
(* generate_pdf_report on generated lists                                  *)

ReportSession ==
    [user |-> "alice", filename |-> CsvName, uploaded_at |-> 1, record_count |-> 0,
     summary_json |-> None]

ReportRow(i) ==
    [session |-> 1, idx |-> i, name |-> <<"Eq", i>>,
     equipment_type |-> IF i % 2 = 1 THEN "Pump" ELSE "Valve",
     flowrate |-> i, pressure |-> 5, temperature |-> 20]

ReportList(n) == [i \in 1..n |-> ReportRow(i)]

\* the summary of the spec's two pumps
PumpsSummary ==
    SummaryOf(<<10, 20>>, <<5, 15>>, <<20, 40>>, <<"Pump", "Pump">>).value

InitReport ==
    /\ EmptyStore
    /\ csv = NoCsv
    /\ parsed = None
    /\ queryset = <<>>
    /\ summarized = None
    /\ \E n \in 0..MaxReportRows :
         \E s \in {calculate_summary(ReportList(n)).value, PumpsSummary} :
            report_args = [session |-> Some(ReportSession),
                           equipment_list |-> ReportList(n), summary |-> Some(s)]
    /\ rendered = None

RenderReport ==
    /\ rendered = None
    /\ rendered' = Some(generate_pdf_report(report_args.session[1],
                                            report_args.equipment_list,
                                            report_args.summary[1]))
    /\ UNCHANGED <<storeVars, histVars, req, parserVars, queryset, summarized, report_args,
                   authVars, deskVars>>

SpecReport == InitReport /\ [][RenderReport]_vars

----------------------------------------------------------------------------
(* Two users: uploads that interleave, and the views that read the store   *)

\* the steps of an upload after the creation of its session
UploadSteps(r, answers) ==
    \/ \E dbok \in answers : BulkCreate(r, dbok)
    \/ QueryExists(r)
    \/ QueryFlowrates(r)
    \/ QueryPressures(r)
    \/ QueryTemperatures(r)
    \/ QueryTypes(r)
    \/ SaveSummary(r)
    \/ CleanupCount(r)
    \/ CleanupIds(r)
    \/ CleanupDelete(r)

\* the second user uploads MaxOtherUploads files at most
OtherUpload(r, upload) ==
    /\ Cardinality({i \in DOMAIN created : created[i].user = "bob"}) < MaxOtherUploads
    /\ PostUpload(r, "bob", upload)

NextUsers ==
    \E r \in Slots :
        \/ PostUpload(r, "alice", Some(PumpsCsv))
        \/ OtherUpload(r, Some(MixedCsv))
        \/ UploadSteps(r, {TRUE})

SpecUsers == Init /\ [][NextUsers]_vars

\* the session_id parameter of a request: absent, the id of a session ever
\* created, or an id never given out
SessionIdParams == {None} \cup {Some(i) : i \in 1..nextId}

\* a user's first upload
FirstUpload(r, user, upload) ==
    /\ \A i \in DOMAIN created : created[i].user # user
    /\ PostUpload(r, user, upload)

(* requests served one at a time *)
NextViews ==
    \/ PostUpload(1, "alice", Some(PumpsCsv))
    \/ FirstUpload(1, "alice", Some(HeaderOnlyCsv))
    \/ OtherUpload(1, Some(MixedCsv))
    \/ UploadSteps(1, {TRUE})
    \/ \E u \in Users, p \in SessionIdParams : GetEquipment(1, u, p)
    \/ ListEquipment(1)
    \/ \E u \in Users, p \in SessionIdParams : GetSummary(1, u, p)
    \/ \E u \in Users : GetHistory(1, u)
    \/ \E u \in Users, p \in SessionIdParams : GetReport(1, u, p)
    \/ ReportRows(1)

SpecViews == Init /\ [][NextViews]_vars

(* uploads, which the database may refuse, and the history *)
NextHistory ==
    \/ \E f \in {Some(MixedCsv), Some(HeaderOnlyCsv)} : PostUpload(1, "alice", f)
    \/ OtherUpload(1, Some(PumpsCsv))
    \/ UploadSteps(1, BOOLEAN)
    \/ \E u \in Users : GetHistory(1, u)

SpecHistory == Init /\ [][NextHistory]_vars

----------------------------------------------------------------------------
(* Properties                                                              *)

AtRest == \A r \in Slots : Free(r)
EverCreatedBy(u) == {i \in DOMAIN created : created[i].user = u}
RowsOf(sid) == {e \in equipment : e.session = sid}
UploadDone(r) == req[r].pc = "done" /\ req[r].kind = "upload"
StatusOf(r) == req[r].resp[1].status

C2_ReferentialIntegrity ==
    /\ \A e \in equipment : e.session \in DOMAIN sessions
    /\ [][/\ \A e \in equipment' : e.session \in DOMAIN sessions'
          /\ \A e \in equipment \ equipment' : e.session \notin DOMAIN sessions'
          /\ \A i \in DOMAIN sessions \ DOMAIN sessions' :
                 \A e \in equipment' : e.session # i]_vars

C2_Witness ==
    /\ retired # {}
    /\ equipment # {}
    /\ \E r \in Slots : /\ UploadDone(r)
                        /\ StatusOf(r) = 500
                        /\ req[r].resp[1].body.detail = <<"IntegrityError">>

\* C3: from the creation of an upload's session to the end of its summary
\* write, no cleanup of another request deletes that session.
C3_UploadIsAtomic ==
    \A r \in Slots :
        (req[r].kind = "upload" /\
         req[r].pc \in {"bulk_create", "exists", "flowrates", "pressures",
                        "temperatures", "types", "save"})
            => req[r].sid \in DOMAIN sessions

\* C4: a session deleted by cleanup_old_sessions never exists again.
C4_DeletionIsPermanent == retired \cap DOMAIN sessions = {}

\* C5: calculate_summary never raises: no request ends with the
\* ZeroDivisionError of an empty list, in the upload or in SummaryView.get.
C5_SummaryNeverFails ==
    \A r \in Slots :
        req[r].pc = "done" =>
            /\ req[r].kind = "summary" => StatusOf(r) # 500
            /\ req[r].kind = "upload" /\ StatusOf(r) = 500
                   => req[r].resp[1].body.detail # <<"ZeroDivisionError">>

\* the summary recomputed from the rows the store holds for a session
Recomputed(sid) ==
    LET rows == SessionEquipment(equipment, sid)
    IN  IF rows = <<>> THEN ZeroSummary
        ELSE SummaryOf(Column(rows, "flowrate"), Column(rows, "pressure"),
                       Column(rows, "temperature"), Column(rows, "equipment_type")).value

UploadRunning(sid) == \E r \in Slots : InFlight(r) /\ req[r].kind = "upload" /\ req[r].sid = sid

\* C6: for every session whose upload request has returned, the cached
\* summary equals the summary recomputed from its persisted rows.
C6_CachedSummaryConsistent ==
    \A sid \in DOMAIN sessions :
        ~UploadRunning(sid) => SummaryProperty(sessions[sid]) = Recomputed(sid)

\* C7: an upload that answers 500 after it created its session leaves no
\* session and no equipment row of that request in the store.
C7_FailedUploadLeavesNothing ==
    \A r \in Slots :
        (UploadDone(r) /\ StatusOf(r) = 500 /\ req[r].sid # 0)
            => (req[r].sid \notin DOMAIN sessions /\ RowsOf(req[r].sid) = {})

\* the canonical columns a header provides neither by name nor by alias
AbsentColumns(header) ==
    {c \in Range(required_cols) :
        \A i \in DOMAIN header :
            header[i] # c /\ ~(header[i] \in DOMAIN column_mapping /\ column_mapping[header[i]] = c)}

NamedCsv(name) ==
    /\ Len(name) >= 4
    /\ name[Len(name) - 3] = "." /\ name[Len(name) - 2] = "c"
    /\ name[Len(name) - 1] = "s" /\ name[Len(name)] = "v"

\* C8: an upload of a .csv file whose header lacks a canonical column after
\* alias mapping answers 400, its message names exactly the absent columns,
\* and the store is unchanged.
C8_MissingColumnsRejected ==
    [][\A r \in Slots, u \in Users, f \in SeqUploads :
          (/\ f # None
           /\ NamedCsv(f[1].name)
           /\ AbsentColumns(f[1].header) # {}
           /\ PostUpload(r, u, f))
          => /\ req'[r].pc = "done"
             /\ req'[r].resp[1].status = 400
             /\ req'[r].resp[1].body.error = "Missing required columns"
             /\ Range(req'[r].resp[1].body.detail) = AbsentColumns(f[1].header)
             /\ Len(req'[r].resp[1].body.detail) = Cardinality(AbsentColumns(f[1].header))
             /\ UNCHANGED storeVars]_vars

C8_Witness ==
    /\ sessions # [i \in {} |-> 0]
    /\ equipment # {}
    /\ UploadDone(1)
    /\ StatusOf(1) = 400
    /\ req[1].resp[1].body.detail = <<"pressure", "temperature">>

\* C9: an upload whose file name does not end in ".csv" answers 400 without
\* a call of the parser, and the store is unchanged.
C9_NonCsvRejected ==
    [][\A r \in Slots, u \in Users, f \in SeqUploads :
          (/\ f # None
           /\ ~NamedCsv(f[1].name)
           /\ PostUpload(r, u, f))
          => /\ req'[r].pc = "done"
             /\ req'[r].resp[1].status = 400
             /\ ~req'[r].parser_called
             /\ UNCHANGED storeVars]_vars

C9_Witness ==
    /\ sessions # [i \in {} |-> 0]
    /\ equipment # {}
    /\ UploadDone(1)
    /\ StatusOf(1) = 400
    /\ req[1].resp[1].body.error = "File must be a CSV"
    /\ ~req[1].parser_called

\* the data rows of the CSV whose three measurement cells are all numbers
NumericRows(file) ==
    LET columns == RenameColumns(file.header)
    IN  {k \in DOMAIN file.rows :
            \A c \in {"flowrate", "pressure", "temperature"} :
                \A i \in ColumnsNamed(columns, c) : file.rows[k][i] \in NumericLiterals}

HeaderComplete(file) == AbsentColumns(file.header) = {}

\* the cell of data row k under the column meant for field c
CellOf(file, k, c) ==
    file.rows[k][CHOOSE i \in DOMAIN file.header : FieldOf(file.header[i]) = c]

\* the frame holds exactly the rows `keep` of the file, in the file's order,
\* each with the numbers its cells spell
FrameIsRows(df, file, keep) ==
    /\ Len(df) = Cardinality(keep)
    /\ \A n \in DOMAIN df :
         \E k \in keep :
            /\ Cardinality({j \in keep : j < k}) = n - 1
            /\ df[n].name = RowNames[k]
            /\ df[n].flowrate = LiteralValue(CellOf(file, k, "flowrate"))
            /\ df[n].pressure = LiteralValue(CellOf(file, k, "pressure"))
            /\ df[n].temperature = LiteralValue(CellOf(file, k, "temperature"))

\* each measurement is named by one column only
Unambiguous(file) ==
    \A c \in {"flowrate", "pressure", "temperature"} :
        Cardinality({i \in DOMAIN file.header : FieldOf(file.header[i]) = c}) <= 1

\* C10 as stated: for every CSV with all five recognizable headers,
\* parse_csv returns exactly the rows whose flowrate, pressure and
\* temperature are all numeric, in their original order.
C10_ParseKeepsNumericRows ==
    (parsed # None /\ HeaderComplete(csv))
        => /\ parsed[1].exc = ""
           /\ FrameIsRows(parsed[1].df, csv, NumericRows(csv))

\* C10 as amended: for every CSV with all five recognizable headers, each
\* measurement named by one column only, parse_csv returns exactly the rows
\* whose flowrate, pressure and temperature are all numeric, in their
\* original order; with a measurement named by two columns it raises.
C10_ParseKeepsNumericRowsOfOneColumnEach ==
    (parsed # None /\ HeaderComplete(csv))
        => IF Unambiguous(csv)
           THEN /\ parsed[1].exc = ""
                /\ FrameIsRows(parsed[1].df, csv, NumericRows(csv))
           ELSE parsed[1].exc = "TypeError"

C10_Witness ==
    /\ parsed # None
    /\ HeaderComplete(csv)
    /\ Unambiguous(csv)
    /\ Len(csv.rows) = 2
    /\ CellOf(csv, 1, "pressure") = ""
    /\ parsed[1].exc = ""
    /\ Len(parsed[1].df) = 1
    /\ parsed[1].df[1].name = "E2"

\* the total of field f over the first n rows
RECURSIVE TotalOf(_, _, _)
TotalOf(rows, f, n) == IF n = 0 THEN 0 ELSE rows[n][f] + TotalOf(rows, f, n - 1)

ValuesOf(rows, f) == {rows[i][f] : i \in DOMAIN rows}

\* avg, min and max (in hundredths) are the mean to the nearest hundredth,
\* the least and the greatest value of field f over the rows
StatisticsOf(rows, f, avg, min, max) ==
    LET n == Len(rows)
        d == 100 * TotalOf(rows, f, n) - n * avg
    IN  /\ 2 * d <= n /\ -2 * d <= n
        /\ \E i \in DOMAIN rows : 100 * rows[i][f] = min
        /\ \A i \in DOMAIN rows : min <= 100 * rows[i][f]
        /\ \E i \in DOMAIN rows : 100 * rows[i][f] = max
        /\ \A i \in DOMAIN rows : 100 * rows[i][f] <= max
        /\ min <= avg /\ avg <= max

RECURSIVE SumOfCounts(_, _)
SumOfCounts(counts, keys) ==
    IF keys = {} THEN 0
    ELSE LET k == CHOOSE t \in keys : TRUE
         IN  counts[k] + SumOfCounts(counts, keys \ {k})

TwoPumps ==
    RowsOfReadings(<< <<"Pump", 10, 5, 20>>, <<"Pump", 20, 15, 40>> >>)

\* C11: for every non-empty collection of equipment rows calculate_summary
\* returns total_count = the number of rows; for each of flowrate, pressure
\* and temperature the mean (to 2 decimals), the minimum and the maximum
\* over the rows, with min <= avg <= max; and a type_distribution that maps
\* each type present to its number of rows, the counts adding up to
\* total_count.  The two pumps (10,5,20) and (20,15,40) give total_count 2,
\* avg_flowrate 15, min_flowrate 10, max_flowrate 20 and {Pump: 2}.
C11_SummaryStatistics ==
    (summarized # None /\ queryset # <<>>) =>
        LET s == summarized[1].value
            present == ValuesOf(queryset, "equipment_type")
        IN  /\ summarized[1].exc = ""
            /\ s.total_count = Len(queryset)
            /\ StatisticsOf(queryset, "flowrate", s.avg_flowrate, s.min_flowrate, s.max_flowrate)
            /\ StatisticsOf(queryset, "pressure", s.avg_pressure, s.min_pressure, s.max_pressure)
            /\ StatisticsOf(queryset, "temperature", s.avg_temperature,
                            s.min_temperature, s.max_temperature)
            /\ DOMAIN s.type_distribution = present
            /\ \A t \in present :
                   s.type_distribution[t] =
                       Cardinality({i \in DOMAIN queryset : queryset[i].equipment_type = t})
            /\ SumOfCounts(s.type_distribution, present) = s.total_count
            /\ queryset = TwoPumps =>
                   /\ s.total_count = 2
                   /\ s.avg_flowrate = 1500 /\ s.min_flowrate = 1000 /\ s.max_flowrate = 2000
                   /\ DOMAIN s.type_distribution = {"Pump"}
                   /\ s.type_distribution["Pump"] = 2

C11_Witness ==
    /\ summarized # None
    /\ queryset = TwoPumps
    /\ summarized[1].value.avg_flowrate = 1500
    /\ summarized[1].value.avg_pressure = 1000
    /\ summarized[1].value.max_temperature = 4000

\* C12: for an empty collection calculate_summary returns total_count 0, the
\* value 0 for the average, minimum and maximum of the three measurements,
\* and an empty type distribution.
C12_EmptySummary ==
    (summarized # None /\ queryset = <<>>) =>
        LET s == summarized[1].value
        IN  /\ summarized[1].exc = ""
            /\ DOMAIN s = {"total_count", "avg_flowrate", "avg_pressure", "avg_temperature",
                           "min_flowrate", "max_flowrate", "min_pressure", "max_pressure",
                           "min_temperature", "max_temperature", "type_distribution"}
            /\ s.total_count = 0
            /\ s.avg_flowrate = 0 /\ s.min_flowrate = 0 /\ s.max_flowrate = 0
            /\ s.avg_pressure = 0 /\ s.min_pressure = 0 /\ s.max_pressure = 0
            /\ s.avg_temperature = 0 /\ s.min_temperature = 0 /\ s.max_temperature = 0
            /\ DOMAIN s.type_distribution = {}

C12_Witness ==
    /\ summarized # None
    /\ queryset = <<>>
    /\ summarized[1].exc = ""
    /\ summarized[1].value.total_count = 0

\* the sessions a user owns, and the equipment rows of those sessions
OwnedSessions(tbl, u) == {<<i, tbl[i]>> : i \in {j \in DOMAIN tbl : tbl[j].user = u}}
OwnedRows(tbl, eq, u) == {e \in eq : e.session \in DOMAIN tbl /\ tbl[e.session].user = u}

\* C13: a step of an upload of user A (the creation of its session, the
\* insert of its rows, its summary write, its retention cleanup) creates,
\* changes and deletes no session and no equipment row owned by another
\* user, whatever the interleaving of the users' requests.
C13_UsersAreIndependent ==
    [][\A r \in Slots :
          (req'[r] # req[r] /\ req'[r].kind = "upload")
              => \A b \in Users \ {req'[r].user} :
                    /\ OwnedSessions(sessions', b) = OwnedSessions(sessions, b)
                    /\ OwnedRows(sessions', equipment', b) = OwnedRows(sessions, equipment, b)]_vars

C13_Witness ==
    /\ retired # {}
    /\ \E i \in retired : created[i].user = "alice"
    /\ OwnedSessions(sessions, "bob") # {}
    /\ OwnedRows(sessions, equipment, "bob") # {}
    /\ \E r \in Slots : InFlight(r) /\ req[r].user = "bob" /\ req[r].pc = "save"
    /\ \E r \in Slots : UploadDone(r) /\ req[r].user = "alice" /\ StatusOf(r) = 201

ReadKinds == {"equipment", "summary", "history", "report"}
ReadDone(r) == req[r].pc = "done" /\ req[r].kind \in ReadKinds

\* the sessions of the table that user u owns
OwnTable(tbl, u) == [i \in {j \in DOMAIN tbl : tbl[j].user = u} |-> tbl[i]]

\* the session a request with parameter p is about, in a table that holds
\* the requesting user's sessions only
ScopedSession(tbl, p) ==
    IF p # None THEN (IF p[1] \in DOMAIN tbl THEN p ELSE None)
    ELSE LET ordered == OrderByUploadedDesc(tbl, DOMAIN tbl)
         IN  IF ordered = <<>> THEN None ELSE Some(ordered[1])

\* the answer of a view computed from the requesting user's own sessions
\* `tbl` and own rows `eq` alone
ScopedAnswer(kind, tbl, eq, p) ==
    LET s == ScopedSession(tbl, p)
        rows == IF s = None THEN <<>> ELSE OrderByName({e \in eq : e.session = s[1]})
        summary == calculate_summary(rows).value
    IN  CASE kind = "equipment" -> Response(200, EquipmentData(rows))
          [] kind = "history" ->
                Response(200, SessionData(tbl,
                    FirstRows(OrderByUploadedDesc(tbl, DOMAIN tbl), HistoryLimit)))
          [] kind = "summary" ->
                IF s # None
                THEN Response(200, SummaryBody(s[1], tbl[s[1]].filename,
                                               tbl[s[1]].uploaded_at, summary))
                ELSE IF p # None THEN Response(404, [error |-> "Session not found"])
                ELSE Response(200, EmptySummaryBody)
          [] kind = "report" ->
                IF s # None
                THEN Response(200, [content_type |-> "application/pdf",
                                    attachment |-> [equipment_report |-> s[1]],
                                    pdf |-> generate_pdf_report(tbl[s[1]], rows, summary)])
                ELSE IF p # None THEN Response(404, [error |-> "Session not found"])
                ELSE Response(404, [error |-> "No upload sessions found"])

\* C14: the answer of equipment listing, summary, history and report
\* download to user A, with or without a session id, is the answer computed
\* from the sessions A owns and their rows alone, so it holds data of A's
\* sessions only and is the same whatever other users hold; and a request
\* with the id of another user's session is answered exactly as a request
\* with an id that does not exist.
C14_UserScoping ==
    /\ [](\A r \in Slots :
            ReadDone(r) =>
                \E p \in SessionIdParams :
                    req[r].resp[1] =
                        ScopedAnswer(req[r].kind, OwnTable(sessions, req[r].user),
                                     OwnedRows(sessions, equipment, req[r].user), p))
    /\ [][\A r \in Slots, u \in Users, i \in DOMAIN sessions :
             sessions[i].user # u =>
                /\ GetEquipment(r, u, Some(i)) => GetEquipment(r, u, Some(nextId))
                /\ GetSummary(r, u, Some(i)) => GetSummary(r, u, Some(nextId))
                /\ GetReport(r, u, Some(i)) => GetReport(r, u, Some(nextId))]_vars

C14_Witness ==
    /\ ReadDone(1)
    /\ req[1].kind = "summary"
    /\ req[1].user = "alice"
    /\ StatusOf(1) = 200
    /\ req[1].sid \in DOMAIN sessions
    /\ req[1].resp[1].body.total_count = 2
    /\ \E i \in DOMAIN sessions :
          /\ sessions[i].user = "bob"
          /\ sessions[i].uploaded_at > sessions[req[1].sid].uploaded_at
          /\ RowsOf(i) # {}

\* the request in slot r has answered 404
NotFound(r) == req'[r].pc = "done" /\ req'[r].resp[1].status = 404

\* C15: a request of equipment listing, summary or report download that
\* names a session id which does not exist for the requesting user (an id
\* never given out, the id of a session deleted by retention, the id of
\* another user's session) is answered 404.
C15_UnknownSessionIs404 ==
    [][\A r \in Slots, u \in Users, i \in 1..nextId :
          i \notin DOMAIN OwnTable(sessions, u) =>
             /\ GetEquipment(r, u, Some(i)) => NotFound(r)
             /\ GetSummary(r, u, Some(i)) => NotFound(r)
             /\ GetReport(r, u, Some(i)) => NotFound(r)]_vars

\* the session of user u with the latest creation time
Newest(tbl, u) ==
    CHOOSE i \in DOMAIN OwnTable(tbl, u) :
        \A j \in DOMAIN OwnTable(tbl, u) : tbl[j].uploaded_at <= tbl[i].uploaded_at

\* C16: without a session id, equipment listing, summary and report download
\* all take the requesting user's session of latest creation time, which is
\* the first entry of that user's history, and read the rows of that
\* session; when an upload has answered 201 and no later upload of the user
\* has followed, that session is the one the upload returned.
C16_DefaultIsLatestSession ==
    /\ [](\A r \in Slots :
            (UploadDone(r) /\ StatusOf(r) = 201) =>
                /\ DOMAIN OwnTable(sessions, req[r].user) # {}
                /\ Newest(sessions, req[r].user) = req[r].resp[1].body.session_id)
    /\ [][\A r \in Slots, u \in Users :
             DOMAIN OwnTable(sessions, u) # {} =>
                /\ GetEquipment(r, u, None) =>
                       req'[r].pc = "list" /\ req'[r].sid = Newest(sessions, u)
                /\ GetSummary(r, u, None) =>
                       req'[r].pc = "exists" /\ req'[r].sid = Newest(sessions, u)
                /\ GetReport(r, u, None) =>
                       req'[r].pc = "rows" /\ req'[r].sid = Newest(sessions, u)
                /\ GetHistory(r, u) =>
                       req'[r].resp[1].body[1].id = Newest(sessions, u)
                /\ ListEquipment(r) =>
                       /\ req'[r].resp[1].status = 200
                       /\ req'[r].resp[1].body = EquipmentData(OrderByName(RowsOf(req[r].sid)))
                /\ ReportRows(r) =>
                       req'[r].equipment_list = OrderByName(RowsOf(req[r].sid))
                /\ (req[r].kind \in {"summary", "report"} /\ req'[r].pc = "done"
                       /\ req[r].pc \in {"exists", "types"}) =>
                       /\ req'[r].resp[1].status = 200
                       /\ req[r].kind = "summary" =>
                              req'[r].resp[1].body.session_id = req[r].sid
                       /\ req[r].kind = "report" =>
                              req'[r].resp[1].body.attachment.equipment_report = req[r].sid]_vars

C16_Witness ==
    /\ req[1].pc = "list"
    /\ req[1].user = "alice"
    /\ Cardinality(DOMAIN OwnTable(sessions, "alice")) >= 2
    /\ req[1].sid = Newest(sessions, "alice")
    /\ \E i \in DOMAIN sessions :
          /\ sessions[i].user = "bob"
          /\ sessions[i].uploaded_at > sessions[req[1].sid].uploaded_at

\* the request in slot r has answered `status`
Answered(r, status) == req'[r].pc = "done" /\ req'[r].resp[1].status = status

\* every statistic of a summary body is 0 and its type distribution is empty
Zeroed(body) ==
    /\ "total_count" \in DOMAIN body
    /\ "type_distribution" \in DOMAIN body
    /\ DOMAIN body.type_distribution = {}
    /\ \A k \in DOMAIN body \ {"session_id", "filename", "uploaded_at", "type_distribution"} :
           body[k] = 0

\* C17: for a user who has no session, without a session id, equipment
\* listing answers 200 with an empty list, history answers 200 with an
\* empty list, summary answers 200 with a zeroed summary, and report
\* download answers 404; none of the four ends in an unhandled failure.
C17_NoSessions ==
    [][\A r \in Slots, u \in Users :
          DOMAIN OwnTable(sessions, u) = {} =>
             /\ GetEquipment(r, u, None) => Answered(r, 200) /\ req'[r].resp[1].body = <<>>
             /\ GetHistory(r, u) => Answered(r, 200) /\ req'[r].resp[1].body = <<>>
             /\ GetSummary(r, u, None) => Answered(r, 200) /\ Zeroed(req'[r].resp[1].body)
             /\ GetReport(r, u, None) => Answered(r, 404)]_vars

C17_Witness ==
    /\ ReadDone(1)
    /\ req[1].kind = "report"
    /\ req[1].user = "alice"
    /\ StatusOf(1) = 404
    /\ req[1].resp[1].body.error = "No upload sessions found"
    /\ DOMAIN OwnTable(sessions, "alice") = {}
    /\ DOMAIN OwnTable(sessions, "bob") # {}

\* C18: the summary answered to a user who has no session has the fields of
\* a session-backed summary: it is calculate_summary of an empty collection
\* (total_count, the average, minimum and maximum of the three
\* measurements, all 0, and an empty type_distribution) with null
\* session_id, filename and uploaded_at.
C18_EmptySummaryShape ==
    [][\A r \in Slots, u \in Users :
          (DOMAIN OwnTable(sessions, u) = {} /\ GetSummary(r, u, None))
              => /\ Answered(r, 200)
                 /\ req'[r].resp[1].body =
                        SummaryBody(None, None, None, calculate_summary(<<>>).value)]_vars

C20_ReportListsFirstFifty ==
    rendered # None =>
        LET doc == rendered[1]
            list == report_args.equipment_list
            s == report_args.summary[1]
            shown == IF Len(list) < 50 THEN Len(list) ELSE 50
        IN  /\ Len(doc.eq_data) = shown
            /\ \A i \in 1..shown :
                   doc.eq_data[i] = <<list[i].name, list[i].equipment_type,
                                      Str(list[i].flowrate), Str(list[i].pressure),
                                      Str(list[i].temperature)>>
            /\ doc.total_records = s.total_count
            /\ doc.summary_data.average =
                   <<Str(s.avg_flowrate), Str(s.avg_pressure), Str(s.avg_temperature)>>
            /\ doc.summary_data.minimum =
                   <<Str(s.min_flowrate), Str(s.min_pressure), Str(s.min_temperature)>>
            /\ doc.summary_data.maximum =
                   <<Str(s.max_flowrate), Str(s.max_pressure), Str(s.max_temperature)>>
            /\ DOMAIN doc.type_data = DOMAIN s.type_distribution
            /\ \A t \in DOMAIN s.type_distribution :
                   doc.type_data[t] = Str(s.type_distribution[t])

C20_Witness ==
    /\ rendered # None
    /\ Len(report_args.equipment_list) = 52
    /\ Len(rendered[1].eq_data) = 50
    /\ rendered[1].eq_data[50][1] = <<"Eq", 50>>
    /\ rendered[1].total_records = 52

----------------------------------------------------------------------------
(* Authentication: accounts, tokens, login / register / logout             *)
(*                                                                         *)
(* A text (username, password, e-mail address) is the sequence of its      *)
(* characters, so that its length and its parts can be computed; the       *)
(* blank text is <<>>.  A token key is modelled by the number of the draw  *)
(* of Token.generate_key() that produced it: the key is 160 random bits,   *)
(* and a repeated draw is taken as impossible.                             *)

MaxKeys == 4       \* keys drawn by Token.generate_key()
MaxAccounts == 3   \* rows of auth_user

\* django.contrib.auth.hashers: the stored value is a salted one-way hash
make_password(password) == [pbkdf2_sha256 |-> password]
check_password(password, encoded) == encoded = make_password(password)

\* serializers.CharField: blank, min_length and max_length validation
CharField(value, min_length, max_length) ==
    IF value = <<>> THEN {"This field may not be blank."}
    ELSE IF min_length # None /\ Len(value) < min_length[1]
         THEN {"Ensure this field has at least min_length characters."}
    ELSE IF max_length # None /\ Len(value) > max_length[1]
         THEN {"Ensure this field has no more than max_length characters."}
    ELSE {}

\* serializers.EmailField: one "@" with something on both sides
EmailField(value) ==
    IF value = <<>> THEN {"This field may not be blank."}
    ELSE IF /\ Cardinality({i \in DOMAIN value : value[i] = "@"}) = 1
            /\ value[1] # "@"
            /\ value[Len(value)] # "@"
         THEN {}
    ELSE {"Enter a valid email address."}

\* the entries of serializer.errors for one field
FieldErrors(field, messages) == {<<field, m>> : m \in messages}

\* LoginSerializer.is_valid: the errors of the two fields
LoginSerializer(data) ==
    FieldErrors("username", CharField(data.username, None, None))
        \cup FieldErrors("password", CharField(data.password, None, None))

\* the account authenticate() would return whatever the password is
AuthenticateByName(tbl, username, password) ==
    LET hits == {i \in DOMAIN tbl : tbl[i].username = username}
    IN  IF hits = {} THEN None ELSE Some(tbl[CHOOSE i \in hits : TRUE])

\* django.contrib.auth.authenticate (ModelBackend): the account of that
\* username if the password matches its hash, else None
authenticate(tbl, username, password) ==
    LET hits == {i \in DOMAIN tbl : /\ tbl[i].username = username
                                    /\ check_password(password, tbl[i].password)}
    IN  IF hits = {} THEN None ELSE Some(tbl[CHOOSE i \in hits : TRUE])

\* a get_or_create that inserts a new row even when the user has one
AlwaysCreate(tokens, user_id, key) ==
    {t \in tokens : t.user_id # user_id} \cup {[key |-> key, user_id |-> user_id]}

\* Token.objects.get_or_create(user=user): the table afterwards, `key`
\* being the key generate_key() would draw
get_or_create(tokens, user_id, key) ==
    IF \E t \in tokens : t.user_id = user_id THEN tokens
    ELSE tokens \cup {[key |-> key, user_id |-> user_id]}

\* the token row of a user (user is a OneToOneField)
TokenOf(tokens, user_id) == CHOOSE t \in tokens : t.user_id = user_id

\* UserSerializer(user).data
UserData(user) == [id |-> user.id, username |-> user.username, email |-> user.email]

AuthFree(r) == auth_req[r].pc \in {"idle", "done"}

AuthDone(r, kind, data, user, response) ==
    auth_req' = [auth_req EXCEPT ![r] =
        [pc |-> "done", kind |-> kind, data |-> data, errors |-> {},
         user |-> user, resp |-> Some(response)]]

InvalidCredentials == Response(401, [error |-> "Invalid credentials"])

\* LoginView.post.  authenticate() only reads the account row, which no
\* handler changes after its INSERT, so the handler's one write
\* (get_or_create) is taken together with it.
LoginViewPost(r, username, password) ==
    /\ AuthFree(r)
    /\ LET data == [username |-> username, password |-> password]
           errors == LoginSerializer(data)
           user == authenticate(auth_user, username, password)
       IN  IF errors # {}
           THEN /\ AuthDone(r, "login", data, None, Response(400, [errors |-> errors]))
                /\ UNCHANGED <<authtoken_token, nextKey>>
           ELSE IF user # None
           THEN LET tokens == get_or_create(authtoken_token, user[1].id, nextKey)
                    token == TokenOf(tokens, user[1].id)
                IN  /\ tokens # authtoken_token => nextKey <= MaxKeys
                    /\ authtoken_token' = tokens
                    /\ nextKey' = IF tokens # authtoken_token THEN nextKey + 1 ELSE nextKey
                    /\ AuthDone(r, "login", data, user,
                                Response(200, [token |-> token.key,
                                               user |-> UserData(user[1])]))
           ELSE /\ AuthDone(r, "login", data, None, InvalidCredentials)
                /\ UNCHANGED <<authtoken_token, nextKey>>
    /\ UNCHANGED auth_user

\* a login request of any HTTP client
Login(r, username, password) ==
    /\ LoginViewPost(r, username, password)
    /\ UNCHANGED <<storeVars, histVars, req, parserVars, pureVars, deskVars>>

\* rest_framework TokenAuthentication: the user id a key authenticates
TokenAuthentication(tokens, key) ==
    LET hits == {t \in tokens : t.key = key}
    IN  IF hits = {} THEN None ELSE Some((CHOOSE t \in hits : TRUE).user_id)

\* a logout that leaves the token in place
KeepToken(tokens, user_id) == tokens

\* request.user.auth_token.delete()
DeleteToken(tokens, user_id) == {t \in tokens : t.user_id # user_id}

\* LogoutView.post; `authorization` is None for a request without the
\* header, Some(key) for "Authorization: Token <key>"
LogoutViewPost(r, authorization) ==
    /\ AuthFree(r)
    /\ LET user == IF authorization = None THEN None
                   ELSE TokenAuthentication(authtoken_token, authorization[1])
           data == [authorization |-> authorization]
       IN  IF user = None
           THEN /\ AuthDone(r, "logout", data, None,
                            Response(401, [detail |-> "Invalid token."]))
                /\ UNCHANGED authtoken_token
           ELSE /\ authtoken_token' = DeleteToken(authtoken_token, user[1])
                /\ AuthDone(r, "logout", data, Some(auth_user[user[1]]),
                            Response(200, [message |-> "Logged out successfully"]))
    /\ UNCHANGED <<auth_user, nextKey>>

\* a logout request of any HTTP client
Logout(r, key) ==
    /\ LogoutViewPost(r, Some(key))
    /\ UNCHANGED <<storeVars, histVars, req, parserVars, pureVars, deskVars>>

\* RegisterSerializer.validate_username / validate_email / validate
validate_username(tbl, value) ==
    IF \E i \in DOMAIN tbl : tbl[i].username = value
    THEN {"Username already exists"} ELSE {}

\* a validate_email that finds no address registered
EmailNeverTaken(tbl, value) == {}

validate_email(tbl, value) ==
    IF \E i \in DOMAIN tbl : tbl[i].email = value
    THEN {"Email already registered"} ELSE {}

validate(data) ==
    IF data.password # data.confirm_password
    THEN FieldErrors("confirm_password", {"Passwords do not match"}) ELSE {}

\* the errors of one field: the field's own validation, then (only if that
\* passed) its validate_<field> method
FieldThenMethod(field, field_messages, method_messages) ==
    FieldErrors(field, IF field_messages # {} THEN field_messages ELSE method_messages)

\* User.objects.create_user: INSERT INTO auth_user (ids are AUTOINCREMENT,
\* and no handler deletes an account)
create_user(tbl, username, email, password) ==
    Append(tbl, [id |-> Len(tbl) + 1, username |-> username, email |-> email,
                 password |-> make_password(password)])

\* RegisterView.post up to the first query: serializer.is_valid() runs the
\* username field and validate_username
PostRegister(r, data) ==
    /\ AuthFree(r)
    /\ auth_req' = [auth_req EXCEPT ![r] =
          [pc |-> "validate_email", kind |-> "register", data |-> data,
           errors |-> FieldThenMethod("username",
                          CharField(data.username, Some(3), Some(30)),
                          validate_username(auth_user, data.username)),
           user |-> None, resp |-> None]]
    /\ UNCHANGED <<auth_user, authtoken_token, nextKey, storeVars, histVars, req,
                   parserVars, pureVars, deskVars>>

\* is_valid() continued: the email field and validate_email (second query),
\* the two password fields, and validate() when no field failed
ValidateEmail(r) ==
    /\ auth_req[r].pc = "validate_email"
    /\ LET q == auth_req[r]
           data == q.data
           errors == q.errors
               \cup FieldThenMethod("email", EmailField(data.email),
                                    validate_email(auth_user, data.email))
               \cup FieldErrors("password", CharField(data.password, Some(6), None))
               \cup FieldErrors("confirm_password",
                                CharField(data.confirm_password, None, None))
           all_errors == IF errors # {} THEN errors ELSE validate(data)
       IN  IF all_errors # {}
           THEN AuthDone(r, "register", data, None,
                         Response(400, [errors |-> all_errors]))
           ELSE auth_req' = [auth_req EXCEPT ![r].pc = "create_user"]
    /\ UNCHANGED <<auth_user, authtoken_token, nextKey, storeVars, histVars, req,
                   parserVars, pureVars, deskVars>>

\* serializer.save(): create_user's INSERT; auth_user.username is UNIQUE, and
\* the view does not catch the IntegrityError
CreateUser(r) ==
    /\ auth_req[r].pc = "create_user"
    /\ LET data == auth_req[r].data
       IN  IF \E i \in DOMAIN auth_user : auth_user[i].username = data.username
           THEN /\ AuthDone(r, "register", data, None,
                            Response(500, [exception |-> "IntegrityError"]))
                /\ UNCHANGED auth_user
           ELSE /\ Len(auth_user) < MaxAccounts
                /\ auth_user' = create_user(auth_user, data.username, data.email,
                                            data.password)
                /\ auth_req' = [auth_req EXCEPT ![r].pc = "get_or_create",
                                                ![r].user = Some(auth_user'[Len(auth_user')])]
    /\ UNCHANGED <<authtoken_token, nextKey, storeVars, histVars, req,
                   parserVars, pureVars, deskVars>>

\* Token.objects.get_or_create(user=user) and the 201 response
RegisterToken(r) ==
    /\ auth_req[r].pc = "get_or_create"
    /\ nextKey <= MaxKeys
    /\ LET user == auth_req[r].user[1]
           tokens == get_or_create(authtoken_token, user.id, nextKey)
           token == TokenOf(tokens, user.id)
       IN  /\ authtoken_token' = tokens
           /\ nextKey' = IF tokens # authtoken_token THEN nextKey + 1 ELSE nextKey
           /\ AuthDone(r, "register", auth_req[r].data, Some(user),
                       Response(201, [message |-> "Registration successful",
                                      token |-> token.key,
                                      user |-> UserData(user)]))
    /\ UNCHANGED <<auth_user, storeVars, histVars, req, parserVars, pureVars, deskVars>>

Admin == <<"a", "d", "m", "i", "n">>
Admin123 == <<"a", "d", "m", "i", "n", "1", "2", "3">>
AdminMail == <<"a", "d", "m", "i", "n", "@", "e", "x", "a", "m", "p", "l", "e">>

\* the create_admin management command, with its default environment
CreateAdmin ==
    /\ ~ \E i \in DOMAIN auth_user : auth_user[i].username = Admin
    /\ Len(auth_user) < MaxAccounts
    /\ auth_user' = create_user(auth_user, Admin, AdminMail, Admin123)
    /\ UNCHANGED <<authtoken_token, nextKey, auth_req, storeVars, histVars, req,
                   parserVars, pureVars, deskVars>>

Carol == <<"c", "a", "r", "o", "l">>
Dave == <<"d", "a", "v", "e">>
Erin == <<"e", "r", "i", "n">>
Secret == <<"s", "e", "c", "r", "e", "t">>
Short == <<"s", "h", "o", "r", "t">>
CarolMail == <<"c", "@", "x">>
NoAtMail == <<"c", "x">>

Registration(username, email, password, confirm_password) ==
    [username |-> username, email |-> email, password |-> password,
     confirm_password |-> confirm_password]

Registrations ==
    {Registration(Carol, CarolMail, Secret, Secret),
     Registration(Dave, CarolMail, Secret, Secret),
     Registration(Admin, CarolMail, Secret, Secret),
     Registration(Carol, CarolMail, Secret, Admin123),
     Registration(Carol, CarolMail, Short, Short),
     Registration(Carol, NoAtMail, Secret, Secret)}

LoginNames == {Admin, Carol, Erin}
LoginPasswords == {Admin123, Secret, <<>>}

RegisterSteps(r) ==
    \/ ValidateEmail(r)
    \/ CreateUser(r)
    \/ RegisterToken(r)

(* Registrations running concurrently                                      *)
NextRegister ==
    \/ CreateAdmin
    \/ \E r \in Slots : \/ \E d \in Registrations : PostRegister(r, d)
                        \/ RegisterSteps(r)

SpecRegister == Init /\ [][NextRegister]_vars

(* Logins and logouts of the admin and of one registered user, one         *)
(* request at a time                                                       *)
NextLogin ==
    \/ CreateAdmin
    \/ /\ \A r \in Slots : AuthFree(r)
       /\ PostRegister(1, Registration(Carol, CarolMail, Secret, Secret))
    \/ RegisterSteps(1)
    \/ /\ \A r \in Slots : AuthFree(r)
       /\ \E r \in Slots :
            \/ \E u \in LoginNames, p \in LoginPasswords : Login(r, u, p)
            \/ \E k \in 1..MaxKeys : Logout(r, k)

SpecLogin == Init /\ [][NextLogin]_vars

----------------------------------------------------------------------------
(* Properties of authentication                                            *)

\* slot r has just answered a request of that kind
JustAnswered(r, kind) ==
    /\ auth_req'[r] # auth_req[r]
    /\ auth_req'[r].pc = "done"
    /\ auth_req'[r].kind = kind

\* the ids of the accounts that have this username and this password
AccountsWith(username, password) ==
    {auth_user[i].id : i \in {j \in DOMAIN auth_user :
        /\ auth_user[j].username = username
        /\ auth_user[j].password = [pbkdf2_sha256 |-> password]}}

\* C21: a login whose username and password match no account answers 401
\* with the body {error: Invalid credentials}, the same whether the username
\* is unknown or the password is wrong, and issues no token; a login whose
\* credentials match an account answers 200 with a token that is, in the
\* token table, the token of that account.
C21_LoginChecksCredentials ==
    [][\A r \in Slots :
        (JustAnswered(r, "login") /\ auth_req'[r].data.password # <<>>) =>
            LET data == auth_req'[r].data
                resp == auth_req'[r].resp[1]
                owners == AccountsWith(data.username, data.password)
            IN  IF owners = {}
                THEN /\ resp = [status |-> 401,
                                body |-> [error |-> "Invalid credentials"]]
                     /\ authtoken_token' = authtoken_token
                ELSE /\ resp.status = 200
                     /\ \E id \in owners :
                          /\ [key |-> resp.body.token, user_id |-> id] \in authtoken_token'
                          /\ resp.body.user.id = id
                          /\ resp.body.user.username = data.username]_vars

\* one login failed for an unknown username, another for a wrong password of
\* a known username, with the same response, while a token of the known user
\* exists
C21_Witness ==
    /\ auth_req[1].pc = "done" /\ auth_req[1].kind = "login"
    /\ auth_req[2].pc = "done" /\ auth_req[2].kind = "login"
    /\ auth_req[1].data.username = Erin
    /\ auth_req[1].data.password = Secret
    /\ auth_req[2].data.username = Carol
    /\ auth_req[2].data.password = Admin123
    /\ \E i \in DOMAIN auth_user :
         /\ auth_user[i].username = Carol
         /\ \E t \in authtoken_token : t.user_id = auth_user[i].id
    /\ ~ \E i \in DOMAIN auth_user : auth_user[i].username = Erin
    /\ auth_req[1].resp = auth_req[2].resp
    /\ auth_req[1].resp[1].status = 401

\* C22: a registration whose confirmation differs or whose password has
\* fewer than 6 characters is answered 400, and no two accounts ever share a
\* username or an e-mail address.
C22_RegistrationKeepsAccountsDistinct ==
    /\ \A r \in Slots :
         (/\ auth_req[r].pc = "done"
          /\ auth_req[r].kind = "register"
          /\ \/ auth_req[r].data.password # auth_req[r].data.confirm_password
             \/ Len(auth_req[r].data.password) < 6)
            => auth_req[r].resp[1].status = 400
    /\ \A i, j \in DOMAIN auth_user :
         i # j => /\ auth_user[i].username # auth_user[j].username
                  /\ auth_user[i].email # auth_user[j].email

\* the key authenticates some user
Authenticates(tokens, key) == \E t \in tokens : t.key = key

\* C24: a logout removes the caller's token, so that its key authenticates
\* nobody; a key that was issued and has stopped authenticating never
\* authenticates again (so a login after the logout returns another key);
\* and a login of a user who holds a token returns the key of that token and
\* leaves the token table as it is.
C24_LogoutInvalidatesToken ==
    [][/\ \A r \in Slots :
            (/\ JustAnswered(r, "logout")
             /\ Authenticates(authtoken_token, auth_req'[r].data.authorization[1]))
                => /\ auth_req'[r].resp[1].status = 200
                   /\ ~ Authenticates(authtoken_token',
                                       auth_req'[r].data.authorization[1])
       /\ \A k \in 1..(MaxKeys + 1) :
            (k < nextKey /\ ~ Authenticates(authtoken_token, k))
                => ~ Authenticates(authtoken_token', k)
       /\ \A r \in Slots :
            (JustAnswered(r, "login") /\ auth_req'[r].resp[1].status = 200)
                => \A t \in authtoken_token :
                      t.user_id = auth_req'[r].resp[1].body.user.id
                          => /\ auth_req'[r].resp[1].body.token = t.key
                             /\ authtoken_token' = authtoken_token]_vars

\* a user logged out with one key, and a login of the same user has since
\* returned another key, which authenticates
C24_Witness ==
    /\ auth_req[2].pc = "done" /\ auth_req[2].kind = "logout"
    /\ auth_req[2].resp[1].status = 200
    /\ auth_req[1].pc = "done" /\ auth_req[1].kind = "login"
    /\ auth_req[1].resp[1].status = 200
    /\ auth_req[1].user = auth_req[2].user
    /\ auth_req[1].resp[1].body.token # auth_req[2].data.authorization[1]
    /\ Authenticates(authtoken_token, auth_req[1].resp[1].body.token)
    /\ ~ Authenticates(authtoken_token, auth_req[2].data.authorization[1])

----------------------------------------------------------------------------
(* URL routing, the APIClient and the LoginDialog of the desktop client    *)
(*                                                                         *)
(* A path is the sequence of its segments.  A call of the APIClient is one *)
(* step: the request, the server's handler and the response.  `net` is     *)
(* what the network does: "ok", "refused" (the request never reaches the   *)
(* server) or "timeout" (the server handles it, the response is lost).     *)

\* api/urls.py: urlpatterns
urlpatterns ==
    {[route |-> <<"auth", "login">>, view |-> "LoginView"],
     [route |-> <<"auth", "logout">>, view |-> "LogoutView"],
     [route |-> <<"upload">>, view |-> "UploadCSVView"],
     [route |-> <<"equipment">>, view |-> "EquipmentListView"],
     [route |-> <<"summary">>, view |-> "SummaryView"],
     [route |-> <<"history">>, view |-> "HistoryListView"],
     [route |-> <<"report", "pdf">>, view |-> "PDFReportView"]}

\* config/urls.py: path('api/', include('api.urls')); the catch-all pattern
\* excludes the paths under api, so an unknown one resolves to nothing (404)
Resolve(path) ==
    LET hits == {p \in urlpatterns : path # <<>> /\ path[1] = "api" /\ p.route = Tail(path)}
    IN  IF hits = {} THEN None ELSE Some((CHOOSE p \in hits : TRUE).view)

LoginPath == <<"api", "auth", "login">>
LogoutPath == <<"api", "auth", "logout">>
RegisterPath == <<"api", "auth", "register">>

\* a POST of any HTTP client to `path` with the JSON body `data`
HttpPost(r, path, data) ==
    LET view == Resolve(path)
    IN  IF view = None
        THEN /\ AuthFree(r)
             /\ AuthDone(r, "not_found", [path |-> path], None,
                         Response(404, [detail |-> "Not Found"]))
             /\ UNCHANGED <<auth_user, authtoken_token, nextKey, storeVars, histVars,
                            req, parserVars, pureVars, deskVars>>
        ELSE IF view[1] = "RegisterView" THEN PostRegister(r, data)
        ELSE /\ view[1] = "LoginView"
             /\ Login(r, data.username, data.password)

Net == {"ok", "refused", "timeout"}

\* the methods class APIClient defines
APIClientMethods ==
    {"login", "logout", "upload_csv", "get_equipment", "get_summary", "get_history",
     "download_pdf"}

\* headers that never carry the token
HeadersWithoutToken(client) ==
    [ContentType |-> Some("application/json"), Authorization |-> None]

\* APIClient._headers(): Authorization is set only `if self.token`
Headers_(client) ==
    [ContentType |-> Some("application/json"),
     Authorization |-> IF client.token # None THEN client.token ELSE None]

\* the headers upload_csv builds (lines 55-57)
UploadHeaders(client) ==
    [ContentType |-> None,
     Authorization |-> IF client.token # None THEN client.token ELSE None]

\* APIClient.is_authenticated
is_authenticated(client) == client.token # None

\* the request reaches the server and its response reaches the client
\* without raise_for_status() raising
Succeeded(r, net) == net = "ok" /\ auth_req'[r].resp[1].status < 400

\* APIClient.login
ClientLogin(r, username, password, net) ==
    /\ outbox' = <<[method |-> "login", path |-> LoginPath,
                    headers |-> [ContentType |-> None, Authorization |-> None]]>>
    /\ IF net = "refused"
       THEN UNCHANGED authVars
       ELSE LoginViewPost(r, username, password)
    /\ api_client' = IF Succeeded(r, net)
                     THEN [api_client EXCEPT !.token = Some(auth_req'[r].resp[1].body.token)]
                     ELSE api_client

\* APIClient.logout
ClientLogout(r, net) ==
    /\ outbox' = <<[method |-> "logout", path |-> LogoutPath,
                    headers |-> Headers_(api_client)]>>
    /\ IF net = "refused"
       THEN UNCHANGED authVars
       ELSE LogoutViewPost(r, api_client.token)
    /\ api_client' = [api_client EXCEPT !.token = None]

\* the account the desktop user signs in as owns the sessions of this user
DesktopUser == "alice"

MaxLoads == 4   \* DataLoaderThreads started

\* MainWindow.load_data: a new DataLoaderThread replaces self.loader and is
\* started; load_history() then fills the history list.  `window` is the
\* window as the caller leaves it.
LoadData(window, session_id) ==
    /\ Len(loaders) < MaxLoads
    /\ loaders' = Append(loaders, [session_id |-> session_id, pc |-> "get_equipment",
                                   equipment |-> <<>>, summary |-> None])
    /\ main_window' = [window EXCEPT
          !.history = HistoryQueryset(sessions, DesktopUser, HistoryLimit)]

\* LoginDialog.handle_login and the AuthThread it starts (the dialog's
\* inputs are disabled until the thread has answered); on success the
\* dialog is accepted and main() builds the MainWindow, whose __init__
\* calls load_data()
HandleLogin(r, username, password, net) ==
    /\ ~ login_dialog.accepted
    /\ IF username = <<>> \/ password = <<>>
       THEN /\ login_dialog' = [login_dialog EXCEPT
                                   !.action = "login",
                                   !.message = Some("Enter username and password")]
            /\ UNCHANGED <<authVars, api_client, outbox, main_window, loaders>>
       ELSE /\ ClientLogin(r, username, password, net)
            /\ IF Succeeded(r, net)
               THEN /\ login_dialog' = [accepted |-> TRUE, action |-> "login",
                                         message |-> None]
                    /\ LoadData([NoWindow EXCEPT !.open = TRUE], None)
               ELSE /\ login_dialog' = [login_dialog EXCEPT
                           !.action = "login",
                           !.message = Some("Authentication failed. Please try again.")]
                    /\ UNCHANGED <<main_window, loaders>>
    /\ UNCHANGED <<storeVars, histVars, req, parserVars, pureVars>>

\* LoginDialog.handle_signup and the AuthThread it starts with action
\* 'register': AuthThread.run calls self.api_client.register, which class
\* APIClient does not define, so the call raises AttributeError and the
\* thread emits `error`
HandleSignup(data) ==
    /\ ~ login_dialog.accepted
    /\ login_dialog' = [login_dialog EXCEPT !.action = "register", !.message =
          IF \E f \in DOMAIN data : data[f] = <<>>
          THEN Some("Please fill all fields")
          ELSE IF data.password # data.confirm_password
          THEN Some("Passwords do not match")
          ELSE IF Len(data.password) < 6
          THEN Some("Password must be at least 6 characters")
          ELSE IF "register" \notin APIClientMethods
          THEN Some("Authentication failed. Please try again.")
          ELSE None]
    /\ UNCHANGED <<authVars, api_client, outbox, main_window, loaders, storeVars,
                   histVars, req, parserVars, pureVars>>

(* Sign-up and sign-in from the desktop dialog, and the same requests      *)
(* from any other HTTP client                                              *)
NextSignup ==
    \/ CreateAdmin
    \/ \E path \in {LoginPath, RegisterPath}, d \in Registrations : HttpPost(2, path, d)
    \/ \E d \in Registrations : HandleSignup(d)
    \/ \E u \in {Admin, Carol}, p \in LoginPasswords, net \in Net : HandleLogin(1, u, p, net)

SpecSignup == Init /\ [][NextSignup]_vars

FormWarnings ==
    {Some("Please fill all fields"), Some("Passwords do not match"),
     Some("Password must be at least 6 characters")}

\* C23: a request to auth/register is never answered "not found", and after
\* a desktop sign-up whose form passed the dialog's checks the client holds
\* a token.
C23_SignUpRegisters ==
    /\ \A r \in Slots :
         (auth_req[r].pc = "done" /\ auth_req[r].kind = "not_found")
            => auth_req[r].data.path # RegisterPath
    /\ (login_dialog.action = "register" /\ login_dialog.message \notin FormWarnings)
          => api_client.token # None

----------------------------------------------------------------------------
(* Equipment types                                                         *)

\* models.py: Equipment.EQUIPMENT_TYPES, the stored values
EQUIPMENT_TYPES ==
    {"Pump", "Compressor", "Valve", "HeatExchanger", "Reactor", "Condenser", "Other"}

\* a file whose second row has a Type outside the enumeration
MixerCsv ==
    [name |-> CsvName, header |-> AliasHeader,
     rows |-> << <<"Pump1", "Pump", "10", "5", "20">>,
                 <<"Valve1", "Mixer", "25", "10", "40">> >>]

(* uploads of files with enumerated and other types, one at a time         *)
NextTypes ==
    \/ \E f \in {Some(PumpsCsv), Some(MixerCsv)} : PostUpload(1, "alice", f)
    \/ UploadSteps(1, {TRUE})

SpecTypes == Init /\ [][NextTypes]_vars

\* C25: the type of every persisted Equipment row is one of the seven
\* enumerated values.
C25_TypesAreEnumerated ==
    \A e \in equipment : e.equipment_type \in EQUIPMENT_TYPES

----------------------------------------------------------------------------
(* Later properties of the store                                           *)

\* C26: an upload answered 500 carries the generic message alone, the same
\* body for every failure, with nothing of the exception's text in it.
C26_ServerErrorIsGeneric ==
    \A r \in Slots :
        (UploadDone(r) /\ req[r].resp[1].status = 500)
            => req[r].resp[1].body = [error |-> "Error processing file", detail |-> <<>>]

(* the read views, uploads and logins, one request at a time               *)
NextReads ==
    \/ NextViews
    \/ CreateAdmin
    \/ Login(1, Admin, Admin123)

SpecReads == Init /\ [][NextReads]_vars

\* the step is one of a read view (equipment, summary, history or report)
ReadStep == \E r \in Slots : req'[r] # req[r] /\ req'[r].kind \in ReadKinds

\* C27: a step of a read view changes no session (cached summaries and row
\* counts included), no equipment row and no token; an equipment row is
\* never changed after its creation, and it disappears only in a step that
\* deletes its session.
C27_ReadsChangeNothing ==
    [][/\ ReadStep => /\ sessions' = sessions
                      /\ equipment' = equipment
                      /\ authtoken_token' = authtoken_token
       /\ \A e \in equipment :
            /\ e \notin equipment'
                  => (e.session \in DOMAIN sessions /\ e.session \notin DOMAIN sessions')
            /\ \A f \in equipment' :
                  (f.session = e.session /\ f.idx = e.idx) => f = e]_vars

\* a read view has answered while sessions with rows and a token exist, and
\* after the retention policy has deleted a session with its rows
C27_Witness ==
    /\ \E r \in Slots : ReadDone(r) /\ req[r].resp[1].status = 200
    /\ equipment # {}
    /\ authtoken_token # {}
    /\ retired # {}
    /\ \A e \in equipment : e.session \in DOMAIN sessions

\* C28: for every session in the store whose upload has completed (it is no
\* longer running and did not answer 500), record_count is the number of
\* the session's persisted rows and the total_count of its cached summary.
C28_CountsAgree ==
    \A sid \in DOMAIN sessions :
        (~UploadRunning(sid) /\ sid \notin aborted)
            => /\ sessions[sid].record_count = Cardinality(RowsOf(sid))
               /\ sessions[sid].summary_json # None
               /\ SummaryProperty(sessions[sid]).total_count = sessions[sid].record_count

----------------------------------------------------------------------------
(* The MainWindow of the desktop client and its DataLoaderThreads          *)
(*                                                                         *)
(* The main thread runs one handler at a time; upload_file blocks it until *)
(* the server has answered.  A thread's two requests are each answered     *)
(* from the store as it is when the request arrives.  `finished` signals   *)
(* are queued to the main thread in the order of their emission            *)
(* (main_window.events).                                                   *)

MaxDesktopUploads == 2   \* files uploaded from the window

\* main(): the dialog was accepted; MainWindow.__init__ calls load_data()
OpenWindow ==
    /\ ~ main_window.open
    /\ LoadData([NoWindow EXCEPT !.open = TRUE], None)
    /\ UNCHANGED <<api_client, outbox, login_dialog, authVars, storeVars, histVars, req,
                   parserVars, pureVars>>

\* the main thread is in its event loop
MainThreadIdle == main_window.open /\ ~ main_window.crashed /\ req[1].pc = "idle"

\* MainWindow.upload_file up to the request: api_client.upload_csv(path)
UploadFile(file) ==
    /\ MainThreadIdle
    /\ Len(loaders) < MaxLoads
    /\ Cardinality(DOMAIN created) < MaxDesktopUploads
    /\ PostUpload(1, DesktopUser, Some(file))

\* upload_file after the response: on 201 current_session_id is set and
\* load_data(session_id) called; raise_for_status() raises on 4xx and 5xx,
\* and the handler shows the error
UploadReturned ==
    /\ main_window.open /\ ~ main_window.crashed
    /\ req[1].pc = "done" /\ req[1].kind = "upload"
    /\ req' = [req EXCEPT ![1] = IdleReq]
    /\ IF req[1].resp[1].status < 400
       THEN LoadData([main_window EXCEPT
                        !.current_session_id = Some(req[1].resp[1].body.session_id)],
                     Some(req[1].resp[1].body.session_id))
       ELSE UNCHANGED <<main_window, loaders>>
    /\ UNCHANGED <<api_client, outbox, login_dialog, authVars, storeVars, histVars,
                   parserVars, pureVars>>

\* MainWindow.on_history_click on the k-th item of the history list
OnHistoryClick(k) ==
    /\ MainThreadIdle
    /\ k \in DOMAIN main_window.history
    /\ LoadData([main_window EXCEPT !.current_session_id = Some(main_window.history[k])],
                Some(main_window.history[k]))
    /\ UNCHANGED <<api_client, outbox, login_dialog, authVars, storeVars, histVars, req,
                   parserVars, pureVars>>

\* EquipmentListView's answer to the user's request
EquipmentResponse(user, session_id) ==
    LET latest == LatestSession(sessions, user)
    IN  IF session_id # None
        THEN EquipmentData(EquipmentOfUser(sessions, equipment, user, session_id[1]))
        ELSE IF latest # None
        THEN EquipmentData(SessionEquipment(equipment, latest[1]))
        ELSE <<>>

\* SummaryView's answer to the user's request
SummaryResponse(user, session_id) ==
    LET found == IF session_id # None
                 THEN GetSession(sessions, user, session_id[1])
                 ELSE LatestSession(sessions, user)
    IN  IF found # None
        THEN Response(200, SummaryBody(found[1], sessions[found[1]].filename,
                                       sessions[found[1]].uploaded_at,
                                       calculate_summary(SessionEquipment(equipment,
                                                                          found[1])).value))
        ELSE IF session_id # None
        THEN Response(404, [error |-> "Session not found"])
        ELSE Response(200, EmptySummaryBody)

Running(t) == loaders[t].pc \in {"get_equipment", "get_summary"}

\* DataLoaderThread.run, line 27
ThreadGetEquipment(t) ==
    /\ ~ main_window.crashed
    /\ loaders[t].pc = "get_equipment"
    /\ loaders' = [loaders EXCEPT
          ![t].pc = "get_summary",
          ![t].equipment = EquipmentResponse(DesktopUser, loaders[t].session_id)]
    /\ UNCHANGED <<api_client, outbox, main_window, login_dialog, authVars, storeVars,
                   histVars, req, parserVars, pureVars>>

\* DataLoaderThread.run, lines 28-31: `finished` is emitted with both
\* results, or `error` when raise_for_status() raised
ThreadGetSummary(t) ==
    /\ ~ main_window.crashed
    /\ loaders[t].pc = "get_summary"
    /\ LET response == SummaryResponse(DesktopUser, loaders[t].session_id)
       IN  IF response.status < 400
           THEN /\ loaders' = [loaders EXCEPT ![t].pc = "emitted",
                                              ![t].summary = Some(response.body)]
                /\ main_window' = [main_window EXCEPT !.events = Append(@, t)]
           ELSE /\ loaders' = [loaders EXCEPT ![t].pc = "failed"]
                /\ UNCHANGED main_window
    /\ UNCHANGED <<api_client, outbox, login_dialog, authVars, storeVars, histVars, req,
                   parserVars, pureVars>>

\* load_data dropped the only reference to a thread that is still running:
\* the QThread may be destroyed while running, which aborts the process
\* ("QThread: Destroyed while thread is still running"), or live on
ThreadDestroyed(t) ==
    /\ ~ main_window.crashed
    /\ t \in DOMAIN loaders
    /\ t < Len(loaders)
    /\ Running(t)
    /\ main_window' = [main_window EXCEPT !.crashed = TRUE]
    /\ UNCHANGED <<api_client, outbox, loaders, login_dialog, authVars, storeVars,
                   histVars, req, parserVars, pureVars>>

\* MainWindow.on_data_loaded, for the oldest queued `finished` signal
OnDataLoaded ==
    /\ MainThreadIdle
    /\ main_window.events # <<>>
    /\ LET t == Head(main_window.events)
       IN  /\ main_window' = [main_window EXCEPT
                 !.events = Tail(@),
                 !.equipment = loaders[t].equipment,
                 !.summary = loaders[t].summary]
           /\ loaders' = [loaders EXCEPT ![t].pc = "delivered"]
    /\ UNCHANGED <<api_client, outbox, login_dialog, authVars, storeVars, histVars, req,
                   parserVars, pureVars>>

\* the statements of an upload while the user holds KeepCount sessions at
\* most: cleanup_old_sessions counts and deletes nothing
UploadKeepingAll(r) ==
    \/ BulkCreate(r, TRUE)
    \/ QueryExists(r)
    \/ QueryFlowrates(r)
    \/ QueryPressures(r)
    \/ QueryTemperatures(r)
    \/ QueryTypes(r)
    \/ SaveSummary(r)
    \/ CleanupCount(r)

NextDesktop ==
    \/ OpenWindow
    \/ \E f \in {PumpsCsv, MixedCsv} : UploadFile(f)
    \/ UploadKeepingAll(1)
    \/ UploadReturned
    \/ \E k \in 1..HistoryLimit : OnHistoryClick(k)
    \/ \E t \in DOMAIN loaders : \/ ThreadGetEquipment(t)
                                 \/ ThreadGetSummary(t)
                                 \/ ThreadDestroyed(t)
    \/ OnDataLoaded

SpecDesktop == Init /\ [][NextDesktop]_vars

\* every thread has delivered its result or failed, and nothing is queued
AllLoadsFinished ==
    /\ main_window.open /\ ~ main_window.crashed
    /\ loaders # <<>>
    /\ \A t \in DOMAIN loaders : loaders[t].pc \in {"delivered", "failed"}

\* C29: once every load has finished, the last one successfully, the window
\* displays the equipment list and the summary that the most recently
\* started thread fetched.
C29_LatestRequestIsDisplayed ==
    (AllLoadsFinished /\ loaders[Len(loaders)].pc = "delivered")
        => /\ main_window.equipment = loaders[Len(loaders)].equipment
           /\ main_window.summary = loaders[Len(loaders)].summary

----------------------------------------------------------------------------
(* The APIClient's token                                                   *)
(*                                                                         *)
(* The response of a data request does not touch the client's state; what  *)
(* the server does with these requests is specified with the store.        *)

DataPaths ==
    [upload_csv |-> <<"api", "upload">>, get_equipment |-> <<"api", "equipment">>,
     get_summary |-> <<"api", "summary">>, get_history |-> <<"api", "history">>,
     download_pdf |-> <<"api", "report", "pdf">>]

\* a call of api_client.login
CallLogin(username, password, net) ==
    /\ ClientLogin(1, username, password, net)
    /\ UNCHANGED <<main_window, loaders, login_dialog, storeVars, histVars, req,
                   parserVars, pureVars>>

\* a call of api_client.logout
CallLogout(net) ==
    /\ ClientLogout(1, net)
    /\ UNCHANGED <<main_window, loaders, login_dialog, storeVars, histVars, req,
                   parserVars, pureVars>>

\* a call of upload_csv, get_equipment, get_summary, get_history or
\* download_pdf: the request the client sends
CallData(method) ==
    /\ outbox' = <<[method |-> method, path |-> DataPaths[method],
                    headers |-> IF method = "upload_csv" THEN UploadHeaders(api_client)
                                ELSE Headers_(api_client)]>>
    /\ UNCHANGED <<api_client, main_window, loaders, login_dialog, authVars, storeVars,
                   histVars, req, parserVars, pureVars>>

NextClient ==
    \/ CreateAdmin
    \/ \E p \in {Admin123, Secret}, net \in Net : CallLogin(Admin, p, net)
    \/ \E net \in Net : CallLogout(net)
    \/ \E m \in DOMAIN DataPaths : CallData(m)

SpecClient == Init /\ [][NextClient]_vars

\* C30: the client is authenticated exactly when it holds a token, and holds
\* none before its first call; a login stores the token of a 200 response
\* that arrived and otherwise leaves the token as it was; a logout clears
\* the token whatever happens to its request; a data request sent while a
\* token is held carries that token in its Authorization header.
C30_ClientTokenState ==
    /\ [](is_authenticated(api_client) <=> api_client.token # None)
    /\ [](outbox = <<>> => api_client.token = None)
    /\ [][/\ \A p \in {Admin123, Secret}, net \in Net :
               CallLogin(Admin, p, net) =>
                   IF net = "ok" /\ auth_req'[1].resp[1].status = 200
                   THEN api_client'.token = Some(auth_req'[1].resp[1].body.token)
                   ELSE api_client'.token = api_client.token
          /\ \A net \in Net : CallLogout(net) => api_client'.token = None
          /\ \A m \in DOMAIN DataPaths :
               (CallData(m) /\ api_client.token # None)
                   => outbox'[1].headers.Authorization = api_client.token]_vars

\* the client has logged out and holds no token, although its logout
\* request carried a key that the server still accepts: the request failed
C30_Witness ==
    /\ outbox # <<>>
    /\ outbox[1].method = "logout"
    /\ outbox[1].headers.Authorization # None
    /\ Authenticates(authtoken_token, outbox[1].headers.Authorization[1])
    /\ api_client.token = None

====
